---- MODULE Spec2Model ----
(***************************************************************************)
(* A model of the termi text editor (src/src/main.rs): the Editor struct,   *)
(* its methods as operators from an Editor record to an Editor record, and  *)
(* the arms of the key dispatch in main as the actions.  Lines are          *)
(* sequences of one-character strings; rows and columns are 0-based as in   *)
(* the source, so row y of a buffer b is b[y + 1].                          *)
(***************************************************************************)
EXTENDS Integers, Sequences, FiniteSets, TLC

VARIABLES buffer, cursor_x, cursor_y, history, history_index,
          selection_start, selection_end, is_selecting, clipboard,
          matched_bracket, mode, show_tree, file_path, language,
          file_buffers, dirty_files, dirty, cursor_locked, delete_target,
          quit_confirm, mouse_dragging, mouse_drag_start_pos,
          last_mouse_click_pos, scroll_y, scroll_x, needs_full_redraw,
          goto_line_input, term_rows, term_cols, disk, loop

vars == <<buffer, cursor_x, cursor_y, history, history_index,
          selection_start, selection_end, is_selecting, clipboard,
          matched_bracket, mode, show_tree, file_path, language,
          file_buffers, dirty_files, dirty, cursor_locked, delete_target,
          quit_confirm, mouse_dragging, mouse_drag_start_pos,
          last_mouse_click_pos, scroll_y, scroll_x, needs_full_redraw,
          goto_line_input, term_rows, term_cols, disk, loop>>

(***************************************************************************)
(* Bounds of the model.                                                     *)
(***************************************************************************)
\* most characters plus line breaks an edit may grow the document to in Spec
MaxText == 2
\* most snapshots an edit may grow the history to in Spec, for each file of
\* the directory
MaxHist == 2
\* most characters plus line breaks of a document drawn in SpecBracket
MaxBracketText == 5
\* most characters plus line breaks of a document drawn in SpecWord
MaxWordText == 5
\* most characters plus line breaks of a document drawn in SpecSelect
MaxSelectText == 3
\* most characters of a line drawn in SpecToken
MaxTokenText == 4
\* most characters plus line breaks of a document drawn in SpecIndent
MaxIndentText == 4
\* largest row and column of a text cell the mouse points at
MaxMouse == 2
\* most characters plus line breaks of a document drawn in SpecMouse
MaxMouseText == 2
\* most characters plus line breaks of a document drawn in SpecGoto
MaxGotoText == 4
\* most digits typed into the go-to-line entry
MaxGotoInput == 2
\* most characters plus line breaks of a document drawn in SpecScroll
MaxScrollText == 4
\* most text rows and most text columns of the terminal in SpecScroll
MaxWindow == 2

(***************************************************************************)
(* Option<T>, Vec<T> and String helpers.                                    *)
(***************************************************************************)
None == [some |-> FALSE]
Some(v) == [some |-> TRUE, val |-> v]

Min(a, b) == IF a < b THEN a ELSE b
Max(a, b) == IF a > b THEN a ELSE b
\* usize::saturating_sub
SatSub(a, b) == IF a > b THEN a - b ELSE 0

\* s[i] for a 0-based index i
At(s, i) == s[i + 1]
\* Vec::insert(i, c)
VecInsert(s, i, c) == SubSeq(s, 1, i) \o <<c>> \o SubSeq(s, i + 1, Len(s))
\* Vec::remove(i)
VecRemove(s, i) == SubSeq(s, 1, i) \o SubSeq(s, i + 2, Len(s))
\* Vec::drain(a..b)
VecDrain(s, a, b) == SubSeq(s, 1, a) \o SubSeq(s, b + 1, Len(s))
\* Vec::truncate(n)
VecTruncate(s, n) == IF n >= Len(s) THEN s ELSE SubSeq(s, 1, n)
\* Iterator::skip(n) and Iterator::take(n) collected
Skip(s, n) == SubSeq(s, n + 1, Len(s))
Take(s, n) == SubSeq(s, 1, Min(n, Len(s)))
\* " ".repeat(n)
RECURSIVE Spaces(_)
Spaces(n) == IF n <= 0 THEN <<>> ELSE <<" ">> \o Spaces(n - 1)

\* str::split('\n'): the pieces between line breaks, always at least one
RECURSIVE SplitNl(_)
SplitNl(t) ==
    IF \A i \in 1..Len(t) : t[i] # "\n" THEN <<t>>
    ELSE LET k == CHOOSE i \in 1..Len(t) :
                      t[i] = "\n" /\ \A j \in 1..(i - 1) : t[j] # "\n"
         IN <<SubSeq(t, 1, k - 1)>> \o SplitNl(SubSeq(t, k + 1, Len(t)))

\* str::lines(): as split('\n') without the empty piece after a final line
\* break, each line losing one trailing carriage return
StripCr(l) == IF Len(l) > 0 /\ l[Len(l)] = "\r" THEN SubSeq(l, 1, Len(l) - 1) ELSE l
StrLines(t) ==
    LET p == SplitNl(t)
        q == IF p[Len(p)] = <<>> THEN SubSeq(p, 1, Len(p) - 1) ELSE p
    IN [i \in 1..Len(q) |-> StripCr(q[i])]

\* [String]::join("\n")
RECURSIVE JoinNl(_)
JoinNl(ls) ==
    IF Len(ls) = 0 THEN <<>>
    ELSE IF Len(ls) = 1 THEN ls[1]
    ELSE ls[1] \o <<"\n">> \o JoinNl(Tail(ls))

\* str::replace("\r\n", "\n").replace('\r', "\n")
RECURSIVE NormalizeNl(_)
NormalizeNl(t) ==
    IF Len(t) = 0 THEN <<>>
    ELSE IF t[1] = "\r" /\ Len(t) > 1 /\ t[2] = "\n"
         THEN <<"\n">> \o NormalizeNl(SubSeq(t, 3, Len(t)))
    ELSE IF t[1] = "\r" THEN <<"\n">> \o NormalizeNl(Tail(t))
    ELSE <<t[1]>> \o NormalizeNl(Tail(t))

(***************************************************************************)
(* Character classes.                                                       *)
(***************************************************************************)
IsBlank(c) == c = " " \/ c = "\t"

is_special_char(c) ==
    c \in {".", ",", "[", "]", "{", "}", "$", "(", ")", ";", ":", "!", "?",
           "@", "#", "%", "^", "&", "*", "+", "-", "=", "/", "\\", "|",
           "<", ">", "`", "'", "\""}

\* char::is_alphanumeric on the characters the model draws
is_alphanumeric(c) ==
    c \in {"a", "b", "c", "d", "e", "f", "g", "h", "i", "j", "k", "l", "m",
           "n", "o", "p", "q", "r", "s", "t", "u", "v", "w", "x", "y", "z",
           "A", "B", "C", "D", "E", "F", "G", "H", "I", "J", "K", "L", "M",
           "N", "O", "P", "Q", "R", "S", "T", "U", "V", "W", "X", "Y", "Z",
           "0", "1", "2", "3", "4", "5", "6", "7", "8", "9"}

IsWordChar(c) == is_alphanumeric(c) \/ c = "_"

(***************************************************************************)
(* Syntax highlighting: the tokens of one line.                             *)
(***************************************************************************)
get_keywords(lang) ==
    CASE lang = "Rust" ->
           {<<"f", "n">>, <<"l", "e", "t">>, <<"m", "u", "t">>,
            <<"c", "o", "n", "s", "t">>, <<"s", "t", "r", "u", "c", "t">>,
            <<"e", "n", "u", "m">>, <<"i", "m", "p", "l">>,
            <<"t", "r", "a", "i", "t">>, <<"u", "s", "e">>,
            <<"m", "o", "d">>, <<"p", "u", "b">>, <<"i", "f">>,
            <<"e", "l", "s", "e">>, <<"m", "a", "t", "c", "h">>,
            <<"f", "o", "r">>, <<"w", "h", "i", "l", "e">>,
            <<"l", "o", "o", "p">>, <<"r", "e", "t", "u", "r", "n">>,
            <<"b", "r", "e", "a", "k">>,
            <<"c", "o", "n", "t", "i", "n", "u", "e">>,
            <<"t", "r", "u", "e">>, <<"f", "a", "l", "s", "e">>,
            <<"s", "e", "l", "f">>, <<"S", "e", "l", "f">>,
            <<"s", "u", "p", "e", "r">>, <<"a", "s">>,
            <<"i", "m", "p", "l">>, <<"d", "y", "n">>,
            <<"u", "n", "s", "a", "f", "e">>}
      [] lang = "JavaScript" ->
           {<<"f", "u", "n", "c", "t", "i", "o", "n">>,
            <<"c", "o", "n", "s", "t">>, <<"l", "e", "t">>,
            <<"v", "a", "r">>, <<"i", "f">>, <<"e", "l", "s", "e">>,
            <<"f", "o", "r">>, <<"w", "h", "i", "l", "e">>,
            <<"r", "e", "t", "u", "r", "n">>, <<"c", "l", "a", "s", "s">>,
            <<"e", "x", "t", "e", "n", "d", "s">>,
            <<"i", "m", "p", "o", "r", "t">>,
            <<"e", "x", "p", "o", "r", "t">>,
            <<"d", "e", "f", "a", "u", "l", "t">>,
            <<"a", "s", "y", "n", "c">>, <<"a", "w", "a", "i", "t">>,
            <<"t", "r", "u", "e">>, <<"f", "a", "l", "s", "e">>,
            <<"n", "u", "l", "l">>,
            <<"u", "n", "d", "e", "f", "i", "n", "e", "d">>,
            <<"t", "h", "i", "s">>, <<"n", "e", "w">>,
            <<"t", "y", "p", "e", "o", "f">>,
            <<"i", "n", "s", "t", "a", "n", "c", "e", "o", "f">>}
      [] lang = "Python" ->
           {<<"d", "e", "f">>, <<"c", "l", "a", "s", "s">>, <<"i", "f">>,
            <<"e", "l", "s", "e">>, <<"e", "l", "i", "f">>,
            <<"f", "o", "r">>, <<"w", "h", "i", "l", "e">>,
            <<"r", "e", "t", "u", "r", "n">>,
            <<"i", "m", "p", "o", "r", "t">>, <<"f", "r", "o", "m">>,
            <<"a", "s">>, <<"t", "r", "y">>,
            <<"e", "x", "c", "e", "p", "t">>,
            <<"f", "i", "n", "a", "l", "l", "y">>, <<"w", "i", "t", "h">>,
            <<"l", "a", "m", "b", "d", "a">>, <<"T", "r", "u", "e">>,
            <<"F", "a", "l", "s", "e">>, <<"N", "o", "n", "e">>,
            <<"a", "n", "d">>, <<"o", "r">>, <<"n", "o", "t">>, <<"i", "n">>,
            <<"i", "s">>}
      [] lang = "C" \/ lang = "Cpp" ->
           {<<"i", "n", "t">>, <<"c", "h", "a", "r">>,
            <<"f", "l", "o", "a", "t">>, <<"d", "o", "u", "b", "l", "e">>,
            <<"v", "o", "i", "d">>, <<"s", "t", "r", "u", "c", "t">>,
            <<"e", "n", "u", "m">>, <<"i", "f">>, <<"e", "l", "s", "e">>,
            <<"f", "o", "r">>, <<"w", "h", "i", "l", "e">>,
            <<"r", "e", "t", "u", "r", "n">>, <<"b", "r", "e", "a", "k">>,
            <<"c", "o", "n", "t", "i", "n", "u", "e">>,
            <<"s", "w", "i", "t", "c", "h">>, <<"c", "a", "s", "e">>,
            <<"d", "e", "f", "a", "u", "l", "t">>,
            <<"t", "y", "p", "e", "d", "e", "f">>,
            <<"s", "t", "a", "t", "i", "c">>, <<"c", "o", "n", "s", "t">>,
            <<"e", "x", "t", "e", "r", "n">>,
            <<"v", "o", "l", "a", "t", "i", "l", "e">>,
            <<"g", "o", "t", "o">>}
      [] lang = "Java" ->
           {<<"c", "l", "a", "s", "s">>,
            <<"i", "n", "t", "e", "r", "f", "a", "c", "e">>,
            <<"p", "u", "b", "l", "i", "c">>,
            <<"p", "r", "i", "v", "a", "t", "e">>,
            <<"p", "r", "o", "t", "e", "c", "t", "e", "d">>,
            <<"s", "t", "a", "t", "i", "c">>, <<"f", "i", "n", "a", "l">>,
            <<"v", "o", "i", "d">>, <<"i", "n", "t">>,
            <<"S", "t", "r", "i", "n", "g">>, <<"i", "f">>,
            <<"e", "l", "s", "e">>, <<"f", "o", "r">>,
            <<"w", "h", "i", "l", "e">>, <<"r", "e", "t", "u", "r", "n">>,
            <<"n", "e", "w">>, <<"t", "h", "i", "s">>,
            <<"s", "u", "p", "e", "r">>,
            <<"e", "x", "t", "e", "n", "d", "s">>,
            <<"i", "m", "p", "l", "e", "m", "e", "n", "t", "s">>,
            <<"i", "m", "p", "o", "r", "t">>,
            <<"p", "a", "c", "k", "a", "g", "e">>}
      [] OTHER -> {}

is_ascii_digit(c) == c \in {"0", "1", "2", "3", "4", "5", "6", "7", "8", "9"}

is_ascii_alphabetic(c) == is_alphanumeric(c) /\ ~is_ascii_digit(c)

\* a string scan that gives the backslash no meaning
RECURSIVE StringScanNoEscape(_, _, _)
StringScanNoEscape(chars, i, quote) ==
    IF i < Len(chars) /\ At(chars, i) # quote
    THEN StringScanNoEscape(chars, i + 1, quote)
    ELSE i

\* the inner loop of the String arm: the index of the closing quote, or the
\* length of the line
RECURSIVE StringScan(_, _, _)
StringScan(chars, i, quote) ==
    IF i < Len(chars) /\ At(chars, i) # quote
    THEN IF At(chars, i) = "\\" /\ i + 1 < Len(chars)
         THEN StringScan(chars, i + 2, quote)
         ELSE StringScan(chars, i + 1, quote)
    ELSE i

\* the loop of the Number arm
RECURSIVE NumberScan(_, _)
NumberScan(chars, i) ==
    IF i < Len(chars) /\ (is_ascii_digit(At(chars, i)) \/ At(chars, i) \in {".", "e", "E", "+", "-"})
    THEN NumberScan(chars, i + 1)
    ELSE i

\* an identifier loop that always takes two characters
WordScanOverrun(chars, i) == Min(i + 2, Len(chars))

\* the loop of the identifier arm
RECURSIVE WordScan(_, _)
WordScan(chars, i) ==
    IF i < Len(chars) /\ (is_alphanumeric(At(chars, i)) \/ At(chars, i) = "_")
    THEN WordScan(chars, i + 1)
    ELSE i

SlashCommentLanguages == {"Rust", "C", "Cpp", "Java", "JavaScript"}

\* the outer loop of tokenize_line from index i on; a token is
\* <<start, end, type>>
RECURSIVE TokenizeFrom(_, _, _, _)
TokenizeFrom(chars, lang, keywords, i) ==
    IF i >= Len(chars) THEN <<>>
    ELSE LET c == At(chars, i)
         IN IF c = "\"" \/ c = "'"
            THEN LET j == StringScan(chars, i + 1, c)
                     end == IF j < Len(chars) THEN j + 1 ELSE j
                 IN <<<<i, end, "String">>>> \o TokenizeFrom(chars, lang, keywords, end)
            ELSE IF lang \in SlashCommentLanguages /\ i + 1 < Len(chars)
                    /\ c = "/" /\ At(chars, i + 1) = "/"
            THEN <<<<i, Len(chars), "Comment">>>>
            ELSE IF lang = "Python" /\ c = "#"
            THEN <<<<i, Len(chars), "Comment">>>>
            ELSE IF is_ascii_digit(c)
            THEN LET end == NumberScan(chars, i)
                 IN <<<<i, end, "Number">>>> \o TokenizeFrom(chars, lang, keywords, end)
            ELSE IF is_ascii_alphabetic(c) \/ c = "_"
            THEN LET end == WordScan(chars, i)
                     word == SubSeq(chars, i + 1, end)
                 IN <<<<i, end, IF word \in keywords THEN "Keyword" ELSE "Normal">>>>
                    \o TokenizeFrom(chars, lang, keywords, end)
            ELSE TokenizeFrom(chars, lang, keywords, i + 1)

tokenize_line(line, lang, keywords) == TokenizeFrom(line, lang, keywords, 0)

\* the tokens draw colours a row with
DrawnTokens(line, lang) ==
    IF lang # "None" THEN tokenize_line(line, lang, get_keywords(lang))
    ELSE <<<<0, Len(line), "Normal">>>>

(***************************************************************************)
(* The Editor record.                                                       *)
(***************************************************************************)
Ed == [buffer |-> buffer, cursor_x |-> cursor_x, cursor_y |-> cursor_y,
       history |-> history, history_index |-> history_index,
       selection_start |-> selection_start, selection_end |-> selection_end,
       is_selecting |-> is_selecting, clipboard |-> clipboard,
       matched_bracket |-> matched_bracket, mode |-> mode,
       show_tree |-> show_tree, file_path |-> file_path,
       language |-> language, file_buffers |-> file_buffers,
       dirty_files |-> dirty_files, dirty |-> dirty,
       cursor_locked |-> cursor_locked, delete_target |-> delete_target,
       quit_confirm |-> quit_confirm, mouse_dragging |-> mouse_dragging,
       mouse_drag_start_pos |-> mouse_drag_start_pos,
       last_mouse_click_pos |-> last_mouse_click_pos,
       scroll_y |-> scroll_y, scroll_x |-> scroll_x,
       needs_full_redraw |-> needs_full_redraw,
       goto_line_input |-> goto_line_input,
       term_rows |-> term_rows, term_cols |-> term_cols,
       disk |-> disk, loop |-> loop]

Apply(e) ==
    /\ buffer' = e.buffer
    /\ cursor_x' = e.cursor_x
    /\ cursor_y' = e.cursor_y
    /\ history' = e.history
    /\ history_index' = e.history_index
    /\ selection_start' = e.selection_start
    /\ selection_end' = e.selection_end
    /\ is_selecting' = e.is_selecting
    /\ clipboard' = e.clipboard
    /\ matched_bracket' = e.matched_bracket
    /\ mode' = e.mode
    /\ show_tree' = e.show_tree
    /\ file_path' = e.file_path
    /\ language' = e.language
    /\ file_buffers' = e.file_buffers
    /\ dirty_files' = e.dirty_files
    /\ dirty' = e.dirty
    /\ cursor_locked' = e.cursor_locked
    /\ delete_target' = e.delete_target
    /\ quit_confirm' = e.quit_confirm
    /\ mouse_dragging' = e.mouse_dragging
    /\ mouse_drag_start_pos' = e.mouse_drag_start_pos
    /\ last_mouse_click_pos' = e.last_mouse_click_pos
    /\ scroll_y' = e.scroll_y
    /\ scroll_x' = e.scroll_x
    /\ needs_full_redraw' = e.needs_full_redraw
    /\ goto_line_input' = e.goto_line_input
    /\ term_rows' = e.term_rows
    /\ term_cols' = e.term_cols
    /\ disk' = e.disk
    /\ loop' = e.loop

\* the files of the directory the editor is started in
Paths == {<<"m", "py">>}

\* the texts the file may hold when the editor starts in Spec
FileTexts == {<<>>, <<"(", "a">>, <<"a", "\n">>}

\* what the system clipboard may answer when paste asks it
SysClips == {None, Some(<<"a">>), Some(<<"\r", "\n">>)}

\* the characters typed in Spec
TypedChars == {"a", "("}

history_limit == 100

STATUS_HEIGHT == 1
TREE_WIDTH == 32
LINE_NUM_WIDTH == 6
SCROLL_STEP == 3

\* what terminal::size() answers where no specification says otherwise
TermRows == 24
TermCols == 80

\* an index past the end of a Vec, or a subtraction below zero, panics and
\* ends the process
Panic(e) == [e EXCEPT !.loop = "panicked"]

(***************************************************************************)
(* The viewport and the frame the control loop draws before each event.     *)
(***************************************************************************)
\* the columns left of the text: the tree when shown, and the line numbers,
\* which are always shown
TextOffset(e) == (IF e.show_tree THEN TREE_WIDTH ELSE 0) + LINE_NUM_WIDTH

\* a clamp that moves the scroll position only when the cursor is above it
EnsureAboveOnly(e, rows, cols) ==
    [e EXCEPT !.scroll_y = Min(e.scroll_y, e.cursor_y),
              !.scroll_x = Min(e.scroll_x, e.cursor_x)]

ensure_cursor_visible(e, rows, cols) ==
    IF rows < STATUS_HEIGHT \/ cols < TextOffset(e) THEN Panic(e)
    ELSE LET max_lines == rows - STATUS_HEIGHT
             available_width == cols - TextOffset(e)
             sy == IF e.cursor_y < e.scroll_y THEN e.cursor_y
                   ELSE IF max_lines > 0 /\ e.cursor_y >= e.scroll_y + max_lines
                   THEN e.cursor_y - max_lines + 1
                   ELSE e.scroll_y
             sx == IF available_width > 0
                   THEN IF e.cursor_x < e.scroll_x THEN e.cursor_x
                        ELSE IF e.cursor_x >= e.scroll_x + available_width
                        THEN e.cursor_x - available_width + 1
                        ELSE e.scroll_x
                   ELSE e.scroll_x
         IN [e EXCEPT !.scroll_y = sy, !.scroll_x = sx]

\* a turn of the mouse wheel
handle_mouse_scroll(e, rows, up) ==
    IF rows < STATUS_HEIGHT THEN Panic(e)
    ELSE LET max_lines == rows - STATUS_HEIGHT
             max_scroll_y == SatSub(Len(e.buffer), max_lines)
             e1 == [e EXCEPT !.cursor_locked = TRUE]
         IN IF up
            THEN IF e.scroll_y > 0
                 THEN [e1 EXCEPT !.scroll_y = SatSub(e.scroll_y, SCROLL_STEP),
                                 !.dirty = TRUE]
                 ELSE e1
            ELSE IF e.scroll_y < max_scroll_y
                 THEN [e1 EXCEPT !.scroll_y = Min(e.scroll_y + SCROLL_STEP, max_scroll_y),
                                 !.dirty = TRUE]
                 ELSE e1

\* draw clears the whole screen when needs_full_redraw is set
ClearsScreen(e) == e.needs_full_redraw

\* what draw leaves of the editor
draw(e) == [e EXCEPT !.needs_full_redraw = FALSE]

\* the head of the loop body: the clamp unless the cursor is locked, then the
\* draw when something changed
Frame(e) ==
    IF e.loop # "running" THEN e
    ELSE LET e1 == IF ~e.cursor_locked
                   THEN ensure_cursor_visible(e, e.term_rows, e.term_cols)
                   ELSE e
         IN IF e1.loop = "running" /\ (e1.dirty \/ e1.needs_full_redraw)
            THEN draw(e1) ELSE e1

RowOk(e) == e.cursor_y < Len(e.buffer)
Line(e) == e.buffer[e.cursor_y + 1]
SetLine(e, l) == [e.buffer EXCEPT ![e.cursor_y + 1] = l]

(***************************************************************************)
(* Bracket matching.                                                        *)
(***************************************************************************)
\* a forward scan that stops at the end of the line it starts on
RECURSIVE ScanForwardOneLine(_, _, _, _, _, _)
ScanForwardOneLine(b, open, close, cy, cx, depth) ==
    IF cy >= Len(b) THEN None
    ELSE IF cx < Len(b[cy + 1])
         THEN LET c == At(b[cy + 1], cx)
              IN IF c = open THEN ScanForwardOneLine(b, open, close, cy, cx + 1, depth + 1)
                 ELSE IF c = close
                      THEN IF depth = 0 THEN Some(<<cy, cx>>)
                           ELSE ScanForwardOneLine(b, open, close, cy, cx + 1, depth - 1)
                 ELSE ScanForwardOneLine(b, open, close, cy, cx + 1, depth)
    ELSE None

\* the forward arm of the scan loop of find_matching_bracket
RECURSIVE ScanForward(_, _, _, _, _, _)
ScanForward(b, open, close, cy, cx, depth) ==
    IF cy >= Len(b) THEN None
    ELSE IF cx < Len(b[cy + 1])
         THEN LET c == At(b[cy + 1], cx)
              IN IF c = open THEN ScanForward(b, open, close, cy, cx + 1, depth + 1)
                 ELSE IF c = close
                      THEN IF depth = 0 THEN Some(<<cy, cx>>)
                           ELSE ScanForward(b, open, close, cy, cx + 1, depth - 1)
                 ELSE ScanForward(b, open, close, cy, cx + 1, depth)
    ELSE ScanForward(b, open, close, cy + 1, 0, depth)

\* the backward arm of the scan loop of find_matching_bracket
RECURSIVE ScanBackward(_, _, _, _, _, _)
ScanBackward(b, open, close, cy, cx, depth) ==
    IF cy >= Len(b) THEN None
    ELSE IF cx > 0
         THEN LET c == At(b[cy + 1], cx - 1)
              IN IF c = open THEN ScanBackward(b, open, close, cy, SatSub(cx, 1), depth + 1)
                 ELSE IF c = close
                      THEN IF depth = 0 THEN Some(<<cy, cx - 1>>)
                           ELSE ScanBackward(b, open, close, cy, SatSub(cx, 1), depth - 1)
                 ELSE ScanBackward(b, open, close, cy, SatSub(cx, 1), depth)
    ELSE IF cy = 0 THEN None
    ELSE ScanBackward(b, open, close, cy - 1, Len(b[cy]), depth)

\* the column the backward scan starts from
BackwardStart(x) == SatSub(x, 1)

find_matching_bracket(b, y, x) ==
    IF y >= Len(b) THEN None
    ELSE IF x >= Len(b[y + 1]) THEN None
    ELSE LET char_at == At(b[y + 1], x)
         IN CASE char_at = "(" -> ScanForward(b, "(", ")", y, x + 1, 0)
              [] char_at = ")" -> ScanBackward(b, ")", "(", y, BackwardStart(x), 0)
              [] char_at = "[" -> ScanForward(b, "[", "]", y, x + 1, 0)
              [] char_at = "]" -> ScanBackward(b, "]", "[", y, BackwardStart(x), 0)
              [] char_at = "{" -> ScanForward(b, "{", "}", y, x + 1, 0)
              [] char_at = "}" -> ScanBackward(b, "}", "{", y, BackwardStart(x), 0)
              [] OTHER -> None

update_bracket_matching(e) ==
    IF e.cursor_y >= Len(e.buffer) THEN [e EXCEPT !.matched_bracket = None]
    ELSE IF e.cursor_x >= Len(Line(e)) THEN [e EXCEPT !.matched_bracket = None]
    ELSE LET m1 == find_matching_bracket(e.buffer, e.cursor_y, e.cursor_x)
             m2 == IF e.cursor_x > 0
                   THEN find_matching_bracket(e.buffer, e.cursor_y, e.cursor_x - 1)
                   ELSE None
         IN [e EXCEPT !.matched_bracket = IF m1.some THEN m1 ELSE m2]

(***************************************************************************)
(* Selection.                                                               *)
(***************************************************************************)
start_selection(e) ==
    [e EXCEPT !.is_selecting = TRUE,
              !.selection_start = Some(<<e.cursor_y, e.cursor_x>>),
              !.selection_end = Some(<<e.cursor_y, e.cursor_x>>),
              !.dirty = TRUE]

\* update_selection_end that keeps the endpoints in document order
UpdateEndNormalized(e) ==
    IF e.is_selecting
    THEN LET c == <<e.cursor_y, e.cursor_x>>
             a == e.selection_start.val
         IN IF c[1] < a[1] \/ (c[1] = a[1] /\ c[2] < a[2])
            THEN [e EXCEPT !.selection_start = Some(c), !.selection_end = Some(a),
                           !.dirty = TRUE]
            ELSE [e EXCEPT !.selection_end = Some(c), !.dirty = TRUE]
    ELSE e

update_selection_end(e) ==
    IF e.is_selecting
    THEN [e EXCEPT !.selection_end = Some(<<e.cursor_y, e.cursor_x>>), !.dirty = TRUE]
    ELSE e

clear_selection(e) ==
    IF ~e.is_selecting
    THEN [e EXCEPT !.selection_start = None, !.selection_end = None]
    ELSE e

\* a comparison that looks at the rows only
RowLess(p, q) == p[1] < q[1]

\* (row, col) tuples compared as Rust compares tuples
PosLess(p, q) == p[1] < q[1] \/ (p[1] = q[1] /\ p[2] < q[2])

\* the rows y..end_y of the multi-line arm of get_selected_text; a row the
\* buffer does not have contributes nothing
RECURSIVE SelectedRows(_, _, _, _, _, _)
SelectedRows(b, y, sy, sx, ey, ex) ==
    IF y > ey THEN <<>>
    ELSE LET piece == IF y < Len(b)
                      THEN (IF y = sy THEN Skip(b[y + 1], sx)
                            ELSE IF y = ey THEN Take(b[y + 1], ex)
                            ELSE b[y + 1])
                           \o (IF y < ey THEN <<"\n">> ELSE <<>>)
                      ELSE <<>>
         IN piece \o SelectedRows(b, y + 1, sy, sx, ey, ex)

SelectedText(b, s, t) ==
    LET a == IF PosLess(s, t) THEN s ELSE t
        z == IF PosLess(s, t) THEN t ELSE s
        result == IF a[1] = z[1]
                  THEN IF a[1] < Len(b)
                       THEN Take(Skip(b[a[1] + 1], a[2]), z[2] - a[2])
                       ELSE <<>>
                  ELSE SelectedRows(b, a[1], a[1], a[2], z[1], z[2])
    IN IF result = <<>> THEN None ELSE Some(result)

get_selected_text(e) ==
    IF e.selection_start.some /\ e.selection_end.some
    THEN IF e.selection_start.val = e.selection_end.val THEN None
         ELSE SelectedText(e.buffer, e.selection_start.val, e.selection_end.val)
    ELSE None

select_all(e) ==
    IF Len(e.buffer) = 0 THEN e
    ELSE LET last_line == Len(e.buffer) - 1
             last_col == Len(e.buffer[last_line + 1])
         IN [e EXCEPT !.selection_start = Some(<<0, 0>>),
                      !.selection_end = Some(<<last_line, last_col>>),
                      !.cursor_y = last_line, !.cursor_x = last_col,
                      !.is_selecting = TRUE, !.dirty = TRUE,
                      !.needs_full_redraw = TRUE]

copy_selection(e) ==
    LET text == get_selected_text(e)
    IN IF text.some
       THEN [e EXCEPT !.clipboard = text, !.dirty = TRUE]
       ELSE e

(***************************************************************************)
(* Word selection and the mouse.                                            *)
(***************************************************************************)
\* the loops of get_word_boundaries; start and end are 0-based columns
RECURSIVE BlanksBefore(_, _)
BlanksBefore(line, start) ==
    IF start > 0 /\ IsBlank(At(line, start - 1))
    THEN BlanksBefore(line, start - 1) ELSE start

RECURSIVE BoundaryStart(_, _)
BoundaryStart(line, start) ==
    IF start > 0 /\ ~IsBlank(At(line, start - 1))
                 /\ ~is_special_char(At(line, start - 1))
    THEN BoundaryStart(line, start - 1) ELSE start

RECURSIVE BoundaryEnd(_, _)
BoundaryEnd(line, end) ==
    IF end < Len(line) /\ ~IsBlank(At(line, end))
    THEN IF is_special_char(At(line, end)) THEN end + 1
         ELSE BoundaryEnd(line, end + 1)
    ELSE end

get_word_boundaries(b, y, x) ==
    IF y >= Len(b) THEN None
    ELSE LET line == b[y + 1]
         IN IF x > Len(line) THEN None
            ELSE IF Len(line) = 0 THEN Some(<<0, 0>>)
            ELSE IF x >= Len(line) \/ IsBlank(At(line, x))
            THEN LET s1 == BlanksBefore(line, x)
                     start == IF s1 > 0 THEN BoundaryStart(line, s1 - 1) ELSE s1
                 IN Some(<<start, BoundaryEnd(line, start)>>)
            ELSE IF is_special_char(At(line, x)) THEN Some(<<x, x + 1>>)
            ELSE Some(<<BoundaryStart(line, x), BoundaryEnd(line, x)>>)

select_word_at(e, y, x) ==
    LET w == get_word_boundaries(e.buffer, y, x)
    IN IF w.some
       THEN LET e1 == start_selection([e EXCEPT !.cursor_y = y, !.cursor_x = w.val[1]])
            IN [update_selection_end([e1 EXCEPT !.cursor_x = w.val[2]])
                  EXCEPT !.needs_full_redraw = TRUE]
       ELSE e

\* the cursor put on the clicked cell of row y, a row of the buffer
CursorOnCell(e, y, x) ==
    [e EXCEPT !.cursor_y = y, !.cursor_x = Min(x, Len(e.buffer[y + 1]))]

\* a press of the left button on the text cell (y, x); quick says that less
\* than 500 ms have passed since the last press
handle_mouse_click(e, y, x, shift, quick) ==
    IF y < Len(e.buffer)
    THEN LET clicked_pos == <<y, Min(x, Len(e.buffer[y + 1]))>>
             is_double_click == quick /\ e.last_mouse_click_pos = Some(clicked_pos)
             e1 == CursorOnCell(e, y, x)
             e2 == IF is_double_click THEN select_word_at(e1, y, e1.cursor_x)
                   ELSE IF shift
                   THEN update_selection_end(
                            IF ~e1.is_selecting THEN start_selection(e1) ELSE e1)
                   ELSE [e1 EXCEPT !.is_selecting = FALSE,
                                   !.selection_start = None,
                                   !.selection_end = None,
                                   !.mouse_dragging = TRUE,
                                   !.mouse_drag_start_pos =
                                       Some(<<e1.cursor_y, e1.cursor_x>>)]
         IN [e2 EXCEPT !.last_mouse_click_pos = Some(clicked_pos),
                       !.needs_full_redraw = TRUE]
    ELSE e

handle_mouse_drag(e, y, x) ==
    IF e.mouse_dragging /\ y < Len(e.buffer)
    THEN LET e1 == IF ~e.is_selecting
                   THEN IF e.mouse_drag_start_pos.some
                        THEN [e EXCEPT !.selection_start = e.mouse_drag_start_pos,
                                       !.selection_end = e.mouse_drag_start_pos,
                                       !.is_selecting = TRUE]
                        ELSE start_selection(CursorOnCell(e, y, x))
                   ELSE e
         IN [update_selection_end(CursorOnCell(e1, y, x)) EXCEPT !.needs_full_redraw = TRUE]
    ELSE e

handle_mouse_release(e) == [e EXCEPT !.mouse_dragging = FALSE]

(***************************************************************************)
(* Cursor movement.                                                         *)
(***************************************************************************)
left(e) ==
    IF e.cursor_x > 0
    THEN LET e1 == IF e.is_selecting THEN update_selection_end(e) ELSE clear_selection(e)
             e2 == [e1 EXCEPT !.cursor_x = e.cursor_x - 1, !.cursor_locked = FALSE]
         IN [update_bracket_matching(e2) EXCEPT !.dirty = TRUE]
    ELSE e

right(e) ==
    IF ~RowOk(e) THEN Panic(e)
    ELSE IF e.cursor_x < Len(Line(e))
    THEN LET e1 == IF ~e.is_selecting THEN clear_selection(e) ELSE e
             e2 == [e1 EXCEPT !.cursor_x = e.cursor_x + 1]
             e3 == IF e2.is_selecting THEN update_selection_end(e2) ELSE e2
             e4 == [e3 EXCEPT !.cursor_locked = FALSE]
         IN [update_bracket_matching(e4) EXCEPT !.dirty = TRUE]
    ELSE e

up(e) ==
    IF e.cursor_y > 0
    THEN IF e.cursor_y - 1 >= Len(e.buffer) THEN Panic(e)
         ELSE LET e1 == IF e.is_selecting THEN update_selection_end(e) ELSE clear_selection(e)
                  e2 == [e1 EXCEPT !.cursor_y = e.cursor_y - 1,
                                   !.cursor_x = Min(e.cursor_x, Len(e.buffer[e.cursor_y])),
                                   !.cursor_locked = FALSE]
              IN [update_bracket_matching(e2) EXCEPT !.dirty = TRUE]
    ELSE e

down(e) ==
    IF e.cursor_y + 1 < Len(e.buffer)
    THEN LET e1 == IF e.is_selecting THEN update_selection_end(e) ELSE clear_selection(e)
             e2 == [e1 EXCEPT !.cursor_y = e.cursor_y + 1,
                              !.cursor_x = Min(e.cursor_x, Len(e.buffer[e.cursor_y + 2])),
                              !.cursor_locked = FALSE]
         IN [update_bracket_matching(e2) EXCEPT !.dirty = TRUE]
    ELSE e

(***************************************************************************)
(* History.                                                                 *)
(***************************************************************************)
\* the buffer save_history_state pushes as the snapshot
Snapshot(e) == e.buffer

\* save_history_state without the drop of the oldest snapshot
SaveWithoutDrop(e) ==
    [e EXCEPT !.history = Append(VecTruncate(e.history, e.history_index + 1), Snapshot(e)),
              !.history_index = e.history_index + 1]

\* save_history_state without the truncation of the redo states
SaveWithoutTruncate(e) ==
    [e EXCEPT !.history = Append(e.history, Snapshot(e)),
              !.history_index = e.history_index + 1]

save_history_state(e) ==
    LET h1 == VecTruncate(e.history, e.history_index + 1)
        h2 == Append(h1, Snapshot(e))
        i2 == e.history_index + 1
    IN IF Len(h2) > history_limit
       THEN [e EXCEPT !.history = Tail(h2), !.history_index = i2 - 1]
       ELSE [e EXCEPT !.history = h2, !.history_index = i2]

\* the cursor clamp shared by undo and redo
ClampCursor(e) ==
    LET y == IF e.cursor_y >= Len(e.buffer) THEN SatSub(Len(e.buffer), 1) ELSE e.cursor_y
        x == IF y < Len(e.buffer) THEN Min(e.cursor_x, Len(e.buffer[y + 1])) ELSE e.cursor_x
    IN [e EXCEPT !.cursor_y = y, !.cursor_x = x]

\* undo without its test that an older snapshot exists
UndoUnguarded(e) ==
    [e EXCEPT !.history_index = e.history_index - 1,
              !.buffer = IF e.history_index > 0 THEN e.history[e.history_index]
                         ELSE e.buffer,
              !.dirty = TRUE]

undo(e) ==
    IF e.history_index > 0
    THEN LET i == e.history_index - 1
         IN IF i < Len(e.history)
            THEN [ClampCursor([e EXCEPT !.history_index = i, !.buffer = e.history[i + 1]])
                    EXCEPT !.dirty = TRUE, !.needs_full_redraw = TRUE]
            ELSE [e EXCEPT !.history_index = i]
    ELSE e

\* redo with the request to redraw outside its test for a newer snapshot
RedoAlwaysDirty(e) ==
    IF e.history_index + 1 < Len(e.history)
    THEN LET i == e.history_index + 1
         IN [ClampCursor([e EXCEPT !.history_index = i, !.buffer = e.history[i + 1]])
               EXCEPT !.dirty = TRUE]
    ELSE [e EXCEPT !.dirty = TRUE]

redo(e) ==
    IF e.history_index + 1 < Len(e.history)
    THEN LET i == e.history_index + 1
         IN [ClampCursor([e EXCEPT !.history_index = i, !.buffer = e.history[i + 1]])
               EXCEPT !.dirty = TRUE, !.needs_full_redraw = TRUE]
    ELSE e

mark_file_dirty(e) ==
    [e EXCEPT !.dirty = TRUE, !.needs_full_redraw = TRUE,
              !.dirty_files = IF e.file_path.some THEN @ \cup {e.file_path.val} ELSE @]

(***************************************************************************)
(* Edits.                                                                   *)
(***************************************************************************)
CursorOk(e) == RowOk(e) /\ e.cursor_x <= Len(Line(e))

\* an insert that pairs nothing
NoClosing(c) == None

\* the closer insert adds after an opening delimiter
Closing(c) ==
    CASE c = "(" -> Some(")")
      [] c = "[" -> Some("]")
      [] c = "{" -> Some("}")
      [] c = "\"" -> Some("\"")
      [] c = "'" -> Some("'")
      [] OTHER -> None

insert(e, c) ==
    IF ~CursorOk(e) THEN Panic(e)
    ELSE LET e1 == save_history_state(e)
             l1 == VecInsert(Line(e), e.cursor_x, c)
             l2 == IF Closing(c).some THEN VecInsert(l1, e.cursor_x + 1, Closing(c).val) ELSE l1
         IN mark_file_dirty([e1 EXCEPT !.buffer = SetLine(e, l2),
                                       !.cursor_x = e.cursor_x + 1,
                                       !.cursor_locked = FALSE])

\* backspace that drops the row it should merge into the row above
BackspaceDropsRow(e) ==
    IF e.cursor_x > 0
    THEN IF ~CursorOk(e) THEN Panic(e)
         ELSE LET e1 == save_history_state(e)
              IN mark_file_dirty([e1 EXCEPT
                     !.cursor_x = e.cursor_x - 1,
                     !.buffer = SetLine(e, VecRemove(Line(e), e.cursor_x - 1)),
                     !.cursor_locked = FALSE])
    ELSE IF e.cursor_y > 0
    THEN IF ~RowOk(e) THEN Panic(e)
         ELSE LET e1 == save_history_state(e)
                  b1 == VecRemove(e.buffer, e.cursor_y)
                  e2 == [e1 EXCEPT !.buffer = b1,
                                   !.cursor_y = e.cursor_y - 1,
                                   !.cursor_x = Len(b1[e.cursor_y]),
                                   !.cursor_locked = FALSE]
              IN mark_file_dirty(update_bracket_matching(e2))
    ELSE e

backspace(e) ==
    IF e.cursor_x > 0
    THEN IF ~CursorOk(e) THEN Panic(e)
         ELSE LET e1 == save_history_state(e)
              IN mark_file_dirty([e1 EXCEPT
                     !.cursor_x = e.cursor_x - 1,
                     !.buffer = SetLine(e, VecRemove(Line(e), e.cursor_x - 1)),
                     !.cursor_locked = FALSE])
    ELSE IF e.cursor_y > 0
    THEN IF ~RowOk(e) THEN Panic(e)
         ELSE LET e1 == save_history_state(e)
                  current_line == Line(e)
                  b1 == VecRemove(e.buffer, e.cursor_y)
                  prev == b1[e.cursor_y]
                  e2 == [e1 EXCEPT !.buffer = [b1 EXCEPT ![e.cursor_y] = prev \o current_line],
                                   !.cursor_y = e.cursor_y - 1,
                                   !.cursor_x = Len(prev),
                                   !.cursor_locked = FALSE]
              IN mark_file_dirty(update_bracket_matching(e2))
    ELSE e

delete(e) ==
    IF ~RowOk(e) THEN Panic(e)
    ELSE IF e.cursor_x < Len(Line(e))
    THEN LET e1 == save_history_state(e)
         IN mark_file_dirty([e1 EXCEPT
                !.buffer = SetLine(e, VecRemove(Line(e), e.cursor_x)),
                !.cursor_locked = FALSE])
    ELSE IF e.cursor_x = Len(Line(e)) /\ e.cursor_y + 1 < Len(e.buffer)
    THEN LET e1 == save_history_state(e)
             next_line == e.buffer[e.cursor_y + 2]
             b1 == VecRemove(e.buffer, e.cursor_y + 1)
             e2 == [e1 EXCEPT !.buffer = [b1 EXCEPT ![e.cursor_y + 1] = @ \o next_line],
                              !.cursor_locked = FALSE]
         IN mark_file_dirty(update_bracket_matching(e2))
    ELSE e

\* str::starts_with, str::ends_with, str::contains on character sequences
StartsWith(s, p) == Len(s) >= Len(p) /\ SubSeq(s, 1, Len(p)) = p
EndsWith(s, p) == Len(s) >= Len(p) /\ SubSeq(s, Len(s) - Len(p) + 1, Len(s)) = p
Contains(s, c) == \E i \in 1..Len(s) : s[i] = c

\* str::trim_start on the white space the model draws
RECURSIVE TrimStart(_)
TrimStart(s) ==
    IF Len(s) > 0 /\ s[1] \in {" ", "\t", "\r", "\n"} THEN TrimStart(Tail(s)) ELSE s

\* the leading-whitespace columns counted by calculate_indent_level
RECURSIVE LeadingIndent(_)
LeadingIndent(s) ==
    IF Len(s) = 0 THEN 0
    ELSE IF s[1] = " " THEN 1 + LeadingIndent(Tail(s))
    ELSE IF s[1] = "\t" THEN 4 + LeadingIndent(Tail(s))
    ELSE 0

IncreaseIndent(lang, t) ==
    CASE lang = "Python" ->
           \/ EndsWith(t, <<":">>)
           \/ StartsWith(t, <<"i", "f", " ">>)
           \/ StartsWith(t, <<"e", "l", "i", "f", " ">>)
           \/ StartsWith(t, <<"e", "l", "s", "e", " ">>)
           \/ StartsWith(t, <<"f", "o", "r", " ">>)
           \/ StartsWith(t, <<"w", "h", "i", "l", "e", " ">>)
           \/ StartsWith(t, <<"d", "e", "f", " ">>)
           \/ StartsWith(t, <<"c", "l", "a", "s", "s", " ">>)
           \/ StartsWith(t, <<"t", "r", "y", ":">>)
           \/ StartsWith(t, <<"e", "x", "c", "e", "p", "t", " ">>)
           \/ StartsWith(t, <<"f", "i", "n", "a", "l", "l", "y", ":">>)
           \/ StartsWith(t, <<"w", "i", "t", "h", " ">>)
           \/ StartsWith(t, <<"a", "s", "y", "n", "c", " ">>)
           \/ t = <<"e", "l", "s", "e", ":">>
           \/ t = <<"e", "l", "i", "f", ":">>
           \/ t = <<"e", "x", "c", "e", "p", "t", ":">>
           \/ t = <<"f", "i", "n", "a", "l", "l", "y", ":">>
           \/ t = <<"t", "r", "y", ":">>
      [] lang \in {"Rust", "JavaScript", "C", "Cpp", "Java"} ->
           \/ EndsWith(t, <<" ", "{">>)
           \/ EndsWith(t, <<"{">>)
           \/ (StartsWith(t, <<"i", "f", " ">>) /\ ~Contains(t, ";"))
           \/ (StartsWith(t, <<"f", "o", "r", " ">>) /\ ~Contains(t, ";"))
           \/ (StartsWith(t, <<"w", "h", "i", "l", "e", " ">>) /\ ~Contains(t, ";"))
           \/ StartsWith(t, <<"f", "n", " ">>)
           \/ StartsWith(t, <<"i", "m", "p", "l", " ">>)
           \/ StartsWith(t, <<"t", "r", "a", "i", "t", " ">>)
           \/ StartsWith(t, <<"s", "t", "r", "u", "c", "t", " ">>)
           \/ StartsWith(t, <<"e", "n", "u", "m", " ">>)
           \/ StartsWith(t, <<"m", "a", "t", "c", "h", " ">>)
           \/ StartsWith(t, <<"u", "n", "s", "a", "f", "e", " ">>)
           \/ StartsWith(t, <<"l", "o", "o", "p", " ">>)
           \/ StartsWith(t, <<"f", "u", "n", "c", "t", "i", "o", "n", " ">>)
           \/ StartsWith(t, <<"c", "l", "a", "s", "s", " ">>)
           \/ EndsWith(t, <<"=", ">">>)
           \/ EndsWith(t, <<"e", "l", "s", "e", " ", "{">>)
           \/ EndsWith(t, <<"t", "r", "y", " ", "{">>)
           \/ EndsWith(t, <<"c", "a", "t", "c", "h", " ", "{">>)
      [] OTHER -> FALSE

\* b is the buffer and y the cursor row when newline asks for the indentation
calculate_indent_level(b, y, lang) ==
    IF y = 0 THEN 0
    ELSE LET prev_line == b[y]
             prev_indent == LeadingIndent(prev_line)
         IN IF IncreaseIndent(lang, TrimStart(prev_line))
            THEN prev_indent + 4
            ELSE prev_indent

get_indent_string(level) == Spaces(level)

newline(e) ==
    IF ~CursorOk(e) THEN Panic(e)
    ELSE LET e1 == save_history_state(e)
             rest == Skip(Line(e), e.cursor_x)
             b1 == SetLine(e, Take(Line(e), e.cursor_x))
             indent_level == calculate_indent_level(b1, e.cursor_y, e.language)
             b2 == VecInsert(b1, e.cursor_y + 1, get_indent_string(indent_level) \o rest)
             e2 == [e1 EXCEPT !.buffer = b2, !.cursor_y = e.cursor_y + 1,
                              !.cursor_x = indent_level, !.cursor_locked = FALSE]
         IN mark_file_dirty(update_bracket_matching(e2))

indent(e) ==
    IF ~CursorOk(e) THEN Panic(e)
    ELSE LET e1 == save_history_state(e)
         IN [e1 EXCEPT !.buffer = SetLine(e, Take(Line(e), e.cursor_x)
                                             \o get_indent_string(4)
                                             \o Skip(Line(e), e.cursor_x)),
                       !.cursor_x = e.cursor_x + 4,
                       !.cursor_locked = FALSE, !.dirty = TRUE,
                       !.needs_full_redraw = TRUE]

\* the removal loop of unindent: <<line, cursor_x>> once it stops
RECURSIVE UnindentLoop(_, _, _)
UnindentLoop(line, removed, cx) ==
    IF removed < Len(line) /\ removed < 4
    THEN IF line[1] = " " THEN UnindentLoop(Tail(line), removed + 1, SatSub(cx, 1))
         ELSE IF line[1] = "\t" THEN UnindentLoop(Tail(line), removed + 4, SatSub(cx, 1))
         ELSE <<line, cx>>
    ELSE <<line, cx>>

unindent(e) ==
    IF ~RowOk(e) THEN Panic(e)
    ELSE LET e1 == save_history_state(e)
             r == UnindentLoop(Line(e), 0, e.cursor_x)
         IN IF Len(Line(e)) = 0 THEN e1
            ELSE [e1 EXCEPT !.buffer = SetLine(e, r[1]), !.cursor_x = r[2],
                            !.cursor_locked = FALSE, !.dirty = TRUE,
                            !.needs_full_redraw = TRUE]

\* the lines paste leaves in place of row cursor_y, for the pieces of the
\* clipboard text split at line breaks
PastedRows(line, cx, lines) ==
    IF Len(lines) = 1
    THEN <<Take(line, cx) \o lines[1] \o Skip(line, cx)>>
    ELSE <<Take(line, cx) \o lines[1]>>
         \o SubSeq(lines, 2, Len(lines))
         \o <<lines[Len(lines)] \o Skip(line, cx)>>

paste(e, sys_clipboard) ==
    LET clipboard_text == IF e.clipboard.some THEN e.clipboard ELSE sys_clipboard
    IN IF ~clipboard_text.some THEN e
       ELSE LET lines == SplitNl(NormalizeNl(clipboard_text.val))
                rows == PastedRows(Line(e), e.cursor_x, lines)
                e1 == clear_selection(save_history_state(e))
            IN IF ~CursorOk(e) /\ (Len(lines) > 1 \/ Len(lines[1]) > 0) THEN Panic(e)
               ELSE IF ~CursorOk(e) THEN mark_file_dirty(e1)
               ELSE mark_file_dirty([e1 EXCEPT
                        !.buffer = SubSeq(e.buffer, 1, e.cursor_y) \o rows
                                   \o SubSeq(e.buffer, e.cursor_y + 2, Len(e.buffer)),
                        !.cursor_y = e.cursor_y + Len(rows) - 1,
                        !.cursor_x = IF Len(lines) = 1 THEN e.cursor_x + Len(lines[1])
                                     ELSE Len(lines[Len(lines)])])

(***************************************************************************)
(* Word movement and word deletion.                                         *)
(***************************************************************************)
RECURSIVE SkipBlankLeft(_, _)
SkipBlankLeft(line, x) ==
    IF x > 0 /\ IsBlank(At(line, x - 1)) THEN SkipBlankLeft(line, x - 1) ELSE x

RECURSIVE SkipBlankRight(_, _)
SkipBlankRight(line, x) ==
    IF x < Len(line) /\ IsBlank(At(line, x)) THEN SkipBlankRight(line, x + 1) ELSE x

RECURSIVE RunLeft(_, _)
RunLeft(line, x) ==
    IF x > 0 /\ IsWordChar(At(line, x - 1)) THEN RunLeft(line, x - 1) ELSE x

RECURSIVE RunRight(_, _)
RunRight(line, x) ==
    IF x < Len(line) /\ IsWordChar(At(line, x)) THEN RunRight(line, x + 1) ELSE x

\* a step to the left that takes one character whatever it is
StepLeftOneChar(line, x) == x - 1

\* one run to the left of column x > 0: a punctuation character, a run of
\* word characters, or nothing
StepLeft(line, x) ==
    LET prev_char == At(line, x - 1)
    IN IF is_special_char(prev_char) THEN x - 1
       ELSE IF IsWordChar(prev_char) THEN RunLeft(line, x)
       ELSE x

\* one run to the right of column x < len
StepRight(line, x) ==
    LET current_char == At(line, x)
    IN IF is_special_char(current_char) THEN x + 1
       ELSE IF IsWordChar(current_char) THEN RunRight(line, x)
       ELSE x

\* the column word_left moves to inside a line, from column cx > 0
WordLeftCol(line, cx) ==
    LET x == SkipBlankLeft(line, cx)
    IN IF x = 0 THEN 0 ELSE StepLeft(line, x)

\* the column word_right moves to inside a line, from column cx < len
WordRightCol(line, cx) ==
    LET x == SkipBlankRight(line, cx)
    IN IF x >= Len(line) THEN x ELSE StepRight(line, x)

word_left(e) ==
    IF e.cursor_x = 0
    THEN IF e.cursor_y > 0
         THEN IF e.cursor_y - 1 >= Len(e.buffer) THEN Panic(e)
              ELSE [e EXCEPT !.cursor_y = e.cursor_y - 1,
                             !.cursor_x = Len(e.buffer[e.cursor_y]),
                             !.cursor_locked = FALSE, !.dirty = TRUE]
         ELSE e
    ELSE IF ~CursorOk(e) THEN Panic(e)
    ELSE [update_bracket_matching(
              [e EXCEPT !.cursor_x = WordLeftCol(Line(e), e.cursor_x),
                        !.cursor_locked = FALSE])
            EXCEPT !.dirty = TRUE]

word_right(e) ==
    IF ~RowOk(e) THEN Panic(e)
    ELSE IF e.cursor_x >= Len(Line(e))
    THEN IF e.cursor_y + 1 < Len(e.buffer)
         THEN [update_bracket_matching(
                   [e EXCEPT !.cursor_y = e.cursor_y + 1, !.cursor_x = 0,
                             !.cursor_locked = FALSE])
                 EXCEPT !.dirty = TRUE]
         ELSE e
    ELSE [update_bracket_matching(
              [e EXCEPT !.cursor_x = WordRightCol(Line(e), e.cursor_x),
                        !.cursor_locked = FALSE])
            EXCEPT !.dirty = TRUE]

delete_word_backward(e) ==
    IF e.cursor_x = 0
    THEN IF e.cursor_y > 0
         THEN IF ~RowOk(e) THEN Panic(e)
              ELSE LET e1 == save_history_state(e)
                       b1 == VecRemove(e.buffer, e.cursor_y)
                       prev == b1[e.cursor_y]
                   IN mark_file_dirty([e1 EXCEPT
                          !.buffer = [b1 EXCEPT ![e.cursor_y] = prev \o Line(e)],
                          !.cursor_y = e.cursor_y - 1,
                          !.cursor_x = Len(prev)])
         ELSE e
    ELSE IF ~CursorOk(e) THEN Panic(e)
    ELSE LET blank == SkipBlankLeft(Line(e), e.cursor_x)
             start == IF blank < e.cursor_x THEN blank
                      ELSE IF blank > 0 THEN StepLeft(Line(e), blank)
                      ELSE blank
         IN IF start < e.cursor_x
            THEN mark_file_dirty([save_history_state(e) EXCEPT
                     !.buffer = SetLine(e, VecDrain(Line(e), start, e.cursor_x)),
                     !.cursor_x = start])
            ELSE e

delete_word_forward(e) ==
    IF ~RowOk(e) THEN Panic(e)
    ELSE IF e.cursor_x >= Len(Line(e))
    THEN IF e.cursor_y + 1 < Len(e.buffer)
         THEN LET e1 == save_history_state(e)
                  b1 == VecRemove(e.buffer, e.cursor_y + 1)
              IN mark_file_dirty([e1 EXCEPT
                     !.buffer = [b1 EXCEPT ![e.cursor_y + 1] = @ \o e.buffer[e.cursor_y + 2]]])
         ELSE e
    ELSE LET blank == SkipBlankRight(Line(e), e.cursor_x)
             run == IF blank < Len(Line(e)) THEN StepRight(Line(e), blank) ELSE blank
             end == IF blank > e.cursor_x THEN blank
                    ELSE SkipBlankRight(Line(e), run)
         IN IF end > e.cursor_x
            THEN mark_file_dirty([save_history_state(e) EXCEPT
                     !.buffer = SetLine(e, VecDrain(Line(e), e.cursor_x, end))])
            ELSE e

(***************************************************************************)
(* Files.                                                                   *)
(***************************************************************************)
detect_language(path) ==
    CASE path[2] = "rs" -> "Rust"
      [] path[2] \in {"js", "jsx", "mjs"} -> "JavaScript"
      [] path[2] \in {"py", "pyw"} -> "Python"
      [] path[2] = "c" -> "C"
      [] path[2] \in {"cpp", "cc", "cxx", "hpp", "hxx"} -> "Cpp"
      [] path[2] = "java" -> "Java"
      [] OTHER -> "None"

\* a load that keeps the lines as read, none for an empty file
LoadedLines(text) == StrLines(text)

\* the buffer open_file builds from the text read from the file
LoadedBuffer(text) ==
    LET ls == StrLines(text) IN IF Len(ls) = 0 THEN <<<<>>>> ELSE ls

open_file(e, path) ==
    LET fb1 == IF e.file_path.some
               THEN [e.file_buffers EXCEPT ![e.file_path.val] = Some(e.buffer)]
               ELSE e.file_buffers
    IN IF ~fb1[path].some /\ ~e.disk[path].some
       THEN [e EXCEPT !.file_buffers = fb1]
       ELSE LET b == IF fb1[path].some THEN fb1[path].val
                     ELSE LoadedBuffer(e.disk[path].val)
                fb2 == IF fb1[path].some THEN fb1 ELSE [fb1 EXCEPT ![path] = Some(b)]
                e1 == [e EXCEPT !.buffer = b, !.file_buffers = fb2,
                                !.file_path = Some(path),
                                !.language = detect_language(path),
                                !.cursor_x = 0, !.cursor_y = 0,
                                !.dirty = FALSE, !.needs_full_redraw = TRUE,
                                !.dirty_files = @ \ {path}]
            IN save_history_state(update_bracket_matching(e1))

\* a save that marks the document clean whether or not the file was written
SaveAlwaysClean(e, written) ==
    [e EXCEPT !.dirty = FALSE,
              !.dirty_files = IF e.file_path.some THEN @ \ {e.file_path.val} ELSE @]

\* Editor::save; written tells whether fs::write succeeds
save(e, written) ==
    IF ~e.file_path.some \/ ~written THEN e
    ELSE LET path == e.file_path.val
         IN [e EXCEPT !.disk = [@ EXCEPT ![path] = Some(JoinNl(e.buffer))],
                      !.dirty = FALSE, !.needs_full_redraw = TRUE,
                      !.dirty_files = @ \ {path},
                      !.file_buffers = [@ EXCEPT ![path] = Some(e.buffer)]]

start_delete(e, target) ==
    IF ~e.show_tree THEN e
    ELSE [e EXCEPT !.delete_target = Some(target), !.mode = "DeleteConfirm",
                   !.dirty = TRUE, !.needs_full_redraw = TRUE]

cancel_delete(e) ==
    [e EXCEPT !.mode = "Normal", !.delete_target = None, !.dirty = TRUE,
              !.needs_full_redraw = TRUE]

\* what confirm_delete does to the open document when its file is removed
CloseDeleted(e) ==
    [e EXCEPT !.buffer = <<<<>>>>, !.file_path = None, !.language = "None"]

confirm_delete(e) ==
    IF e.delete_target.some
    THEN LET target == e.delete_target.val
         IN IF ~e.disk[target].some THEN e
            ELSE LET e1 == [e EXCEPT !.disk = [@ EXCEPT ![target] = None]]
                     e2 == IF e.file_path.some /\ e.file_path.val = target
                           THEN CloseDeleted(e1) ELSE e1
                 IN cancel_delete(e2)
    ELSE cancel_delete(e)

(***************************************************************************)
(* The editor after construction and the control loop of main: one action   *)
(* per input event, with the whole of its handler.                          *)
(***************************************************************************)
\* Editor::new_with_path before the initial path is looked at; text is what
\* the file holds
NewEditor(text) ==
    [buffer |-> <<<<>>>>, cursor_x |-> 0, cursor_y |-> 0,
     history |-> <<<<<<>>>>>>, history_index |-> 0,
     selection_start |-> None, selection_end |-> None,
     is_selecting |-> FALSE, clipboard |-> None,
     matched_bracket |-> None, mode |-> "Normal",
     show_tree |-> FALSE, file_path |-> None,
     language |-> "None", file_buffers |-> [p \in Paths |-> None],
     dirty_files |-> {}, dirty |-> TRUE,
     cursor_locked |-> FALSE, delete_target |-> None,
     quit_confirm |-> FALSE, mouse_dragging |-> FALSE,
     mouse_drag_start_pos |-> None, last_mouse_click_pos |-> None,
     scroll_y |-> 0, scroll_x |-> 0, needs_full_redraw |-> TRUE,
     goto_line_input |-> <<>>,
     term_rows |-> TermRows, term_cols |-> TermCols,
     disk |-> [p \in Paths |-> Some(text)], loop |-> "running"]

\* the directory that holds the files
RootDir == <<".", "">>

\* the initial path names a file, a directory, or nothing that exists
new_with_path(text, initial_path) ==
    IF initial_path \in Paths
    THEN [open_file(NewEditor(text), initial_path) EXCEPT !.show_tree = TRUE]
    ELSE IF initial_path = RootDir THEN [NewEditor(text) EXCEPT !.show_tree = TRUE]
    ELSE NewEditor(text)

InitialPaths == Paths \cup {RootDir, <<"missing", "">>}

\* the first event finds the editor as constructed and then framed
StartsAs(constructed) ==
  LET e == Frame(constructed) IN
    /\ buffer = e.buffer
    /\ cursor_x = e.cursor_x
    /\ cursor_y = e.cursor_y
    /\ history = e.history
    /\ history_index = e.history_index
    /\ selection_start = e.selection_start
    /\ selection_end = e.selection_end
    /\ is_selecting = e.is_selecting
    /\ clipboard = e.clipboard
    /\ matched_bracket = e.matched_bracket
    /\ mode = e.mode
    /\ show_tree = e.show_tree
    /\ file_path = e.file_path
    /\ language = e.language
    /\ file_buffers = e.file_buffers
    /\ dirty_files = e.dirty_files
    /\ dirty = e.dirty
    /\ cursor_locked = e.cursor_locked
    /\ delete_target = e.delete_target
    /\ quit_confirm = e.quit_confirm
    /\ mouse_dragging = e.mouse_dragging
    /\ mouse_drag_start_pos = e.mouse_drag_start_pos
    /\ last_mouse_click_pos = e.last_mouse_click_pos
    /\ scroll_y = e.scroll_y
    /\ scroll_x = e.scroll_x
    /\ needs_full_redraw = e.needs_full_redraw
    /\ goto_line_input = e.goto_line_input
    /\ term_rows = e.term_rows
    /\ term_cols = e.term_cols
    /\ disk = e.disk
    /\ loop = e.loop

Init == \E t \in FileTexts : \E p \in InitialPaths : StartsAs(new_with_path(t, p))

\* characters plus line breaks of a document
RECURSIVE TextSize(_)
TextSize(b) ==
    IF Len(b) = 0 THEN 0
    ELSE Len(b[1]) + (IF Len(b) > 1 THEN 1 ELSE 0) + TextSize(Tail(b))

\* the snapshots of a document that was not empty are among the newest n
FreshWithin(h, n) == \A i \in 1..(Len(h) - n) : h[i] = <<<<>>>>

\* the document and the history grow only within the bounds; a history that
\* starts close to history_limit keeps its snapshots of documents that are not
\* empty among the newest MaxHist + 1, and undo goes back MaxHist snapshots
\* from the newest one
Bounded(e) ==
    /\ IF e.buffer = buffer THEN TRUE ELSE TextSize(e.buffer) <= MaxText
    /\ IF e.history = history THEN TRUE
       ELSE IF Len(history) + 1 >= history_limit
            THEN FreshWithin(e.history, MaxHist + 1)
            ELSE Len(e.history) <= MaxHist * Cardinality(DOMAIN disk)
    /\ IF e.history_index = history_index THEN TRUE
       ELSE e.history_index + MaxHist >= Len(e.history)

\* a key other than Ctrl+Q pressed in Normal mode withdraws a pending quit
\* confirmation before its arm runs
CancelQuit(e) ==
    IF mode = "Normal" /\ quit_confirm
    THEN [e EXCEPT !.quit_confirm = FALSE, !.needs_full_redraw = TRUE]
    ELSE e

\* a key event other than Ctrl+Q, handled by the arm that yields e
Do(name, e) ==
    /\ loop = "running"
    /\ Bounded(e)
    /\ Apply(Frame(CancelQuit(e)))

\* the arms of the Normal-mode dispatch that end a selection first
DropSelection(e) ==
    IF e.is_selecting
    THEN [e EXCEPT !.is_selecting = FALSE, !.selection_start = None, !.selection_end = None]
    ELSE e

BeginSelection(e) == IF ~e.is_selecting THEN start_selection(e) ELSE e

\* Ctrl+O shows or hides the tree
toggle_tree(e) ==
    [e EXCEPT !.show_tree = ~e.show_tree, !.dirty = TRUE, !.needs_full_redraw = TRUE]

\* the files the tree lists
TreeFiles(e) == {p \in DOMAIN e.disk : e.disk[p].some}

KeyChar ==
    /\ mode = "Normal"
    /\ \E c \in TypedChars : Do("insert", insert(DropSelection(Ed), c))

KeyBackspace ==
    /\ mode = "Normal"
    /\ Do("backspace", backspace(DropSelection(Ed)))

KeyCtrlBackspace ==
    /\ mode = "Normal"
    /\ Do("delete_word_backward", delete_word_backward(DropSelection(Ed)))

\* with the tree shown, Delete asks to delete the file under the tree cursor
KeyDelete ==
    /\ mode = "Normal"
    /\ IF show_tree
       THEN \E t \in TreeFiles(Ed) : Do("start_delete", start_delete(Ed, t))
       ELSE Do("delete", delete(DropSelection(Ed)))

KeyCtrlDelete ==
    /\ mode = "Normal"
    /\ ~show_tree
    /\ Do("delete_word_forward", delete_word_forward(DropSelection(Ed)))

\* with the tree shown, Enter opens the file under the tree cursor; an empty
\* tree has no such entry
KeyEnter ==
    /\ mode = "Normal"
    /\ IF show_tree
       THEN IF TreeFiles(Ed) = {} THEN Do("open_file", Panic(Ed))
            ELSE \E p \in TreeFiles(Ed) :
                     Do("open_file", [open_file(Ed, p) EXCEPT !.dirty = TRUE])
       ELSE Do("newline", newline(DropSelection(Ed)))

KeyTab ==
    /\ mode = "Normal"
    /\ Do("indent", indent(Ed))

KeyShiftTab ==
    /\ mode = "Normal"
    /\ Do("unindent", unindent(Ed))

KeyCtrlZ ==
    /\ mode = "Normal"
    /\ Do("undo", undo(Ed))

KeyCtrlY ==
    /\ mode = "Normal"
    /\ Do("redo", redo(Ed))

KeyCtrlA ==
    /\ mode = "Normal"
    /\ Do("select_all", select_all(Ed))

KeyCtrlC ==
    /\ mode = "Normal"
    /\ Do("copy_selection", [copy_selection(Ed) EXCEPT !.is_selecting = FALSE])

KeyCtrlV ==
    /\ mode = "Normal"
    /\ \E clip \in SysClips : Do("paste", paste(Ed, clip))

KeyCtrlO ==
    /\ mode = "Normal"
    /\ Do("toggle_tree", toggle_tree(Ed))

KeyLeft ==
    /\ mode = "Normal"
    /\ Do("left", left(DropSelection(Ed)))

KeyShiftLeft ==
    /\ mode = "Normal"
    /\ Do("shift_left", left(BeginSelection(Ed)))

KeyCtrlLeft ==
    /\ mode = "Normal"
    /\ Do("word_left", word_left(DropSelection(Ed)))

KeyCtrlShiftLeft ==
    /\ mode = "Normal"
    /\ Do("shift_word_left", update_selection_end(word_left(BeginSelection(Ed))))

KeyRight ==
    /\ mode = "Normal"
    /\ Do("right", right(DropSelection(Ed)))

KeyShiftRight ==
    /\ mode = "Normal"
    /\ Do("shift_right", right(BeginSelection(Ed)))

KeyCtrlRight ==
    /\ mode = "Normal"
    /\ Do("word_right", word_right(DropSelection(Ed)))

KeyCtrlShiftRight ==
    /\ mode = "Normal"
    /\ Do("shift_word_right", update_selection_end(word_right(BeginSelection(Ed))))

\* without Shift and with the tree shown, Up and Down move the tree cursor,
\* which has nowhere to go in a tree of at most one entry
KeyUp ==
    /\ mode = "Normal"
    /\ IF show_tree THEN Do("tree_up", Ed)
       ELSE Do("up", up(DropSelection(Ed)))

KeyShiftUp ==
    /\ mode = "Normal"
    /\ Do("shift_up", up(BeginSelection(Ed)))

KeyDown ==
    /\ mode = "Normal"
    /\ IF show_tree THEN Do("tree_down", Ed)
       ELSE Do("down", down(DropSelection(Ed)))

KeyShiftDown ==
    /\ mode = "Normal"
    /\ Do("shift_down", down(BeginSelection(Ed)))

(***************************************************************************)
(* Go to line.                                                              *)
(***************************************************************************)
DigitValue(c) ==
    CASE c = "0" -> 0 [] c = "1" -> 1 [] c = "2" -> 2 [] c = "3" -> 3
      [] c = "4" -> 4 [] c = "5" -> 5 [] c = "6" -> 6 [] c = "7" -> 7
      [] c = "8" -> 8 [] c = "9" -> 9

\* str::parse::<usize> of a string of digits: none for the empty string and
\* for a number that does not fit 64 bits
RECURSIVE DigitsValue(_)
DigitsValue(ds) ==
    IF Len(ds) = 0 THEN 0
    ELSE 10 * DigitsValue(SubSeq(ds, 1, Len(ds) - 1)) + DigitValue(ds[Len(ds)])

ParseUsize(ds) ==
    IF Len(ds) = 0 \/ Len(ds) > 20 THEN None
    ELSE Some(DigitsValue(ds))

start_goto_line(e) ==
    [e EXCEPT !.mode = "GoToLine", !.goto_line_input = <<>>,
              !.needs_full_redraw = TRUE, !.dirty = TRUE]

cancel_goto_line(e) ==
    [e EXCEPT !.mode = "Normal", !.goto_line_input = <<>>,
              !.needs_full_redraw = TRUE, !.dirty = TRUE]

\* a confirmation that takes the number entered as a 0-based row
ConfirmGotoZeroBased(e) ==
    LET n == ParseUsize(e.goto_line_input)
    IN IF n.some /\ n.val < Len(e.buffer)
       THEN cancel_goto_line([e EXCEPT !.cursor_y = n.val,
                                       !.cursor_x = Min(e.cursor_x, Len(e.buffer[n.val + 1]))])
       ELSE cancel_goto_line(e)

confirm_goto_line(e) ==
    IF Len(e.goto_line_input) = 0 THEN e
    ELSE LET n == ParseUsize(e.goto_line_input)
         IN IF n.some /\ n.val > 0 /\ n.val <= Len(e.buffer)
            THEN cancel_goto_line(
                     [e EXCEPT !.cursor_y = n.val - 1,
                               !.cursor_x = Min(e.cursor_x, Len(e.buffer[n.val])),
                               !.cursor_locked = FALSE, !.dirty = TRUE])
            ELSE cancel_goto_line(e)

\* the digits typed into the entry
GotoDigits == {"0", "1", "2", "3"}

KeyCtrlG ==
    /\ mode = "Normal"
    /\ Do("start_goto_line", start_goto_line(Ed))

GotoEsc ==
    /\ mode = "GoToLine"
    /\ Do("cancel_goto_line", cancel_goto_line(Ed))

GotoEnter ==
    /\ mode = "GoToLine"
    /\ Do("confirm_goto_line", confirm_goto_line(Ed))

GotoBackspace ==
    /\ mode = "GoToLine"
    /\ Do("goto_line_input.pop",
          [Ed EXCEPT !.goto_line_input = SubSeq(@, 1, SatSub(Len(@), 1)),
                     !.dirty = TRUE])

GotoDigit ==
    /\ mode = "GoToLine"
    /\ Len(goto_line_input) < MaxGotoInput
    /\ \E c \in GotoDigits :
           Do("goto_line_input.push",
              [Ed EXCEPT !.goto_line_input = Append(@, c), !.dirty = TRUE])

KeyY ==
    /\ mode = "DeleteConfirm"
    /\ Do("confirm_delete", confirm_delete(Ed))

KeyN ==
    /\ mode = "DeleteConfirm"
    /\ Do("cancel_delete", cancel_delete(Ed))

\* the Ctrl+S arm drops the result of save
KeyCtrlS ==
    /\ mode = "Normal"
    /\ \E written \in BOOLEAN : Do("save", save(Ed, written))

\* the Ctrl+Q arm: leave the loop at once when nothing is marked changed or
\* when the confirmation is pending, else ask for it
CtrlQ(e) ==
    IF e.quit_confirm THEN [e EXCEPT !.loop = "quit"]
    ELSE IF e.dirty THEN [e EXCEPT !.quit_confirm = TRUE, !.needs_full_redraw = TRUE]
    ELSE [e EXCEPT !.loop = "quit"]

KeyCtrlQ ==
    /\ mode = "Normal"
    /\ loop = "running"
    /\ Apply(Frame(CtrlQ(Ed)))

Next ==
    \/ KeyChar
    \/ KeyBackspace
    \/ KeyCtrlBackspace
    \/ KeyDelete
    \/ KeyCtrlDelete
    \/ KeyEnter
    \/ KeyCtrlZ
    \/ KeyCtrlY
    \/ KeyCtrlV
    \/ KeyCtrlO
    \/ KeyLeft
    \/ KeyRight
    \/ KeyCtrlLeft
    \/ KeyCtrlRight
    \/ KeyUp
    \/ KeyDown
    \/ KeyY
    \/ KeyN

Spec == Init /\ [][Next]_vars

(***************************************************************************)
(* Specifications that draw the document: the editor is started on a file   *)
(* holding any text within a bound, the tree is hidden with Ctrl+O, and the *)
(* keys of one family are pressed.                                          *)
(***************************************************************************)
\* every text of at most n characters of A
Texts(A, n) == UNION {[1..k -> A] : k \in 0..n}

TheFile == CHOOSE p \in Paths : TRUE

Opened(text) == toggle_tree(new_with_path(text, TheFile))

BracketChars == {"(", ")", "[", "a", "\n"}

\* the example document of the bracket matcher
BracketExample == <<"(", "a", "(", "b", ")", "c", ")">>

InitBracket ==
    \E t \in Texts(BracketChars, MaxBracketText) \cup {BracketExample} : StartsAs(Opened(t))

NextBracket ==
    \/ KeyLeft
    \/ KeyRight
    \/ KeyUp
    \/ KeyDown

SpecBracket == InitBracket /\ [][NextBracket]_vars

WordChars == {"a", " ", ".", "~", "\n"}

InitWord == \E t \in Texts(WordChars, MaxWordText) : StartsAs(Opened(t))

NextWord ==
    \/ KeyCtrlLeft
    \/ KeyCtrlRight
    \/ KeyLeft
    \/ KeyRight
    \/ KeyUp
    \/ KeyDown

SpecWord == InitWord /\ [][NextWord]_vars

SelectChars == {"a", "b", "\n"}

InitSelect == \E t \in Texts(SelectChars, MaxSelectText) : StartsAs(Opened(t))

NextSelect ==
    \/ KeyShiftLeft
    \/ KeyShiftRight
    \/ KeyShiftUp
    \/ KeyShiftDown
    \/ KeyCtrlA
    \/ KeyCtrlC
    \/ KeyLeft
    \/ KeyRight

SpecSelect == InitSelect /\ [][NextSelect]_vars

(***************************************************************************)
(* Properties of the edit history.                                          *)
(***************************************************************************)
\* the characters a key press may insert, every opening delimiter among them
InsertChars == {"a", "(", "[", "{", "\"", "'"}

\* clipboard texts with at least one line break
MultiLineTexts == {<<"\r", "\n">>, <<"a", "\n", "a">>, <<"\n", "a", "\n">>}

\* the editor after each single edit applied to e
EditResults(e) ==
    {insert(e, c) : c \in InsertChars}
    \cup {backspace(e), delete(e), newline(e), indent(e),
          delete_word_backward(e), delete_word_forward(e)}
    \cup {paste(e, Some(t)) : t \in MultiLineTexts \cup {<<"a">>}}

\* the edits that complete and change the buffer
Edited(e) == {r \in EditResults(e) : r.loop = "running" /\ r.buffer # e.buffer}

\* C1: in every reachable state, for every single edit that changes the
\* buffer, the edit followed by one undo leaves the buffer as it was before
\* the edit, however many edits came before.
C1_UndoRestoresPreEdit ==
    (loop = "running" /\ mode = "Normal")
        => \A r \in Edited(Ed) : undo(r).buffer = buffer

\* C2: in every reachable state, for every single edit that changes the
\* buffer, the edit followed by undo and then redo leaves the buffer the edit
\* produced.
C2_RedoRestoresPostEdit ==
    (loop = "running" /\ mode = "Normal")
        => \A r \in Edited(Ed) : redo(undo(r)).buffer = r.buffer

\* C3: in every reachable state the cursor row is a row of the buffer and the
\* cursor column is at most the length of that row.
C3_CursorValid ==
    /\ cursor_y < Len(buffer)
    /\ cursor_x <= Len(buffer[cursor_y + 1])

\* C4: in every reachable state the buffer has at least one line, and so has
\* every snapshot in the history; an empty file loads as exactly one empty
\* line, closing a deleted file leaves one empty line, and merging lines with
\* backspace or delete, undo and redo leave at least one line.
C4_BufferHasALine ==
    /\ Len(buffer) >= 1
    /\ \A i \in 1..Len(history) : Len(history[i]) >= 1
    /\ \A p \in Paths : file_buffers[p].some => Len(file_buffers[p].val) >= 1
    /\ \A p \in Paths :
         (disk[p] = Some(<<>>) /\ ~file_buffers[p].some /\ ~file_path.some)
             => open_file(Ed, p).buffer = <<<<>>>>
    /\ CloseDeleted(Ed).buffer = <<<<>>>>
    /\ \A r \in {backspace(Ed), delete(Ed), undo(Ed), redo(Ed)} : Len(r.buffer) >= 1

\* the open file has been deleted and the document closed to one empty line,
\* with the file's lines still in the history
C4_Witness_DeletedOpenFile ==
    /\ ~file_path.some
    /\ buffer = <<<<>>>>
    /\ \E p \in Paths : ~disk[p].some /\ file_buffers[p].some
    /\ \E i \in 1..Len(history) : history[i] # <<<<>>>>

\* C5 as the specification states it: for every character, opening delimiters
\* included, insert followed by backspace restores the buffer and the cursor.
C5_InsertBackspaceRestoresAll ==
    (loop = "running" /\ CursorOk(Ed))
        => \A c \in InsertChars :
             LET r == backspace(insert(Ed, c))
             IN /\ r.buffer = buffer
                /\ r.cursor_x = cursor_x
                /\ r.cursor_y = cursor_y

\* C5: from every reachable state with a valid cursor, insert followed by
\* backspace restores the cursor; it restores the buffer when the character
\* is no opening delimiter, and for an opening delimiter it leaves the buffer
\* with the paired closer inserted at the cursor.
C5_InsertBackspaceRoundTrip ==
    (loop = "running" /\ CursorOk(Ed))
        => \A c \in InsertChars :
             LET r == backspace(insert(Ed, c))
                 closer == CASE c = "(" -> ")"
                             [] c = "[" -> "]"
                             [] c = "{" -> "}"
                             [] OTHER -> c
             IN /\ r.loop = "running"
                /\ r.cursor_x = cursor_x
                /\ r.cursor_y = cursor_y
                /\ r.buffer = IF c \in {"(", "[", "{", "\"", "'"}
                              THEN SetLine(Ed, VecInsert(Line(Ed), cursor_x, closer))
                              ELSE buffer

\* an opening parenthesis has just been typed: the cursor stands between the
\* pair and the newest snapshot is the buffer without the pair
C5_Witness_TypedDelimiter ==
    /\ loop = "running"
    /\ CursorOk(Ed)
    /\ cursor_x >= 1
    /\ cursor_x < Len(Line(Ed))
    /\ At(Line(Ed), cursor_x - 1) = "("
    /\ At(Line(Ed), cursor_x) = ")"
    /\ history_index + 1 = Len(history)
    /\ history[Len(history)] = SetLine(Ed, VecDrain(Line(Ed), cursor_x - 1, cursor_x + 1))

\* C6: pasting a text with k >= 1 line breaks at a valid cursor (r, c) adds
\* exactly k lines, makes the document the text before the cursor, the pasted
\* text and the text after the cursor, and leaves the cursor at row r + k and
\* at the column that is the length of the last pasted line.
C6_MultiLinePasteExact ==
    (loop = "running" /\ CursorOk(Ed) /\ ~clipboard.some)
        => \A t \in MultiLineTexts :
             LET r == paste(Ed, Some(t))
                 text == NormalizeNl(t)
                 lines == SplitNl(text)
                 k == Len(lines) - 1
                 before == JoinNl(SubSeq(buffer, 1, cursor_y) \o <<Take(Line(Ed), cursor_x)>>)
                 after == JoinNl(<<Skip(Line(Ed), cursor_x)>>
                                 \o SubSeq(buffer, cursor_y + 2, Len(buffer)))
             IN /\ Len(r.buffer) = Len(buffer) + k
                /\ JoinNl(r.buffer) = before \o text \o after
                /\ r.cursor_y = cursor_y + k
                /\ r.cursor_x = Len(lines[Len(lines)])

(***************************************************************************)
(* Properties of the selection.                                             *)
(***************************************************************************)
\* the (row, col) positions a cursor may validly take in b
Positions(b) == UNION {{<<y, x>> : x \in 0..Len(b[y + 1])} : y \in 0..(Len(b) - 1)}

\* the text between positions a and z of b, a before z: the suffix of row a
\* from its column, the whole rows between, and the prefix of row z up to its
\* column, joined by line breaks
TextBetween(b, a, z) ==
    IF a[1] = z[1]
    THEN SubSeq(b[a[1] + 1], a[2] + 1, z[2])
    ELSE JoinNl(<<Skip(b[a[1] + 1], a[2])>>
                \o SubSeq(b, a[1] + 2, z[1])
                \o <<Take(b[z[1] + 1], z[2])>>)

\* C7: for every two distinct valid positions taken as anchor and active,
\* get_selected_text is the text between them in lexicographic order, it is
\* the same with anchor and active swapped, and reading or copying the
\* selection leaves the stored endpoints as they are.
C7_SelectedTextIsTextBetween ==
    /\ \A s \in Positions(buffer) : \A t \in Positions(buffer) :
         s # t =>
           LET a == IF s[1] < t[1] \/ (s[1] = t[1] /\ s[2] < t[2]) THEN s ELSE t
               z == IF a = s THEN t ELSE s
               sel == [Ed EXCEPT !.selection_start = Some(s), !.selection_end = Some(t)]
               swapped == [Ed EXCEPT !.selection_start = Some(t), !.selection_end = Some(s)]
           IN /\ get_selected_text(sel) = Some(TextBetween(buffer, a, z))
              /\ get_selected_text(swapped) = get_selected_text(sel)
              /\ copy_selection(sel).selection_start = Some(s)
              /\ copy_selection(sel).selection_end = Some(t)
              /\ copy_selection(sel).clipboard = Some(TextBetween(buffer, a, z))
    /\ (selection_start.some /\ selection_end.some)
         => /\ selection_start.val \in Positions(buffer)
            /\ selection_end.val \in Positions(buffer)

\* a selection made backwards over three rows has been copied: the anchor is
\* two rows below the active end and the clipboard holds the selected text
C7_Witness_BackwardSelectionCopied ==
    /\ selection_start.some
    /\ selection_end.some
    /\ selection_start.val[1] >= selection_end.val[1] + 2
    /\ clipboard.some
    /\ clipboard = get_selected_text(Ed)

(***************************************************************************)
(* Properties of word movement.                                             *)
(***************************************************************************)
\* the cursor is neither at the start nor at the end of the buffer
InsideBuffer ==
    /\ CursorOk(Ed)
    /\ ~(cursor_y = 0 /\ cursor_x = 0)
    /\ ~(cursor_y = Len(buffer) - 1 /\ cursor_x = Len(Line(Ed)))

\* column x of line holds the first character of a run of word characters,
\* or a punctuation character
TokenStartsAt(line, x) ==
    /\ x < Len(line)
    /\ \/ is_special_char(At(line, x))
       \/ IsWordChar(At(line, x)) /\ (x = 0 \/ ~IsWordChar(At(line, x - 1)))

\* column x of line is just after the last character of a run of word
\* characters, or just after a punctuation character
TokenEndsAt(line, x) ==
    /\ x > 0
    /\ \/ is_special_char(At(line, x - 1))
       \/ IsWordChar(At(line, x - 1)) /\ (x = Len(line) \/ ~IsWordChar(At(line, x)))

\* C8 as the specification states it: from every cursor position that is not
\* at a buffer boundary, word_right then word_left, and word_left then
\* word_right, return the cursor to its original column.
C8_WordMovesAreInverse ==
    (loop = "running" /\ InsideBuffer)
        => /\ word_left(word_right(Ed)).cursor_x = cursor_x
           /\ word_right(word_left(Ed)).cursor_x = cursor_x

\* C8: word_right then word_left returns the cursor to its original position
\* when the cursor is on the first character of a word or on a punctuation
\* character; word_left then word_right returns it when the cursor is just
\* after the last character of a word or just after a punctuation character.
C8_WordMovesInverseAtTokenEdges ==
    (loop = "running" /\ CursorOk(Ed))
        => /\ TokenStartsAt(Line(Ed), cursor_x)
                => LET r == word_left(word_right(Ed))
                   IN r.cursor_x = cursor_x /\ r.cursor_y = cursor_y
           /\ TokenEndsAt(Line(Ed), cursor_x)
                => LET r == word_right(word_left(Ed))
                   IN r.cursor_x = cursor_x /\ r.cursor_y = cursor_y

\* the cursor is on the first character of a word that follows a blank and a
\* punctuation character, word_right moves it, and word_left brings it back
C8_Witness_WordStartAfterBlank ==
    /\ CursorOk(Ed)
    /\ cursor_x >= 2
    /\ TokenStartsAt(Line(Ed), cursor_x)
    /\ IsWordChar(At(Line(Ed), cursor_x))
    /\ IsBlank(At(Line(Ed), cursor_x - 1))
    /\ is_special_char(At(Line(Ed), cursor_x - 2))
    /\ word_right(Ed).cursor_x >= cursor_x + 2
    /\ word_left(word_right(Ed)).cursor_x = cursor_x

(***************************************************************************)
(* Properties of bracket matching.                                          *)
(***************************************************************************)
\* the positions of the characters of b
Cells(b) == UNION {{<<y, x>> : x \in 0..(Len(b[y + 1]) - 1)} : y \in 0..(Len(b) - 1)}

CharAt(b, p) == At(b[p[1] + 1], p[2])

\* p comes before q in document order
Before(p, q) == p[1] < q[1] \/ (p[1] = q[1] /\ p[2] < q[2])

\* how many characters c lie strictly between positions p and q of b
CountBetween(b, p, q, c) ==
    Cardinality({r \in Cells(b) : Before(p, r) /\ Before(r, q) /\ CharAt(b, r) = c})

\* the closers after p that balance the opener at p: as many openers as
\* closers of the same type lie between
BalancingClosers(b, p, open, close) ==
    {q \in Cells(b) : /\ Before(p, q)
                      /\ CharAt(b, q) = close
                      /\ CountBetween(b, p, q, open) = CountBetween(b, p, q, close)}

\* the first balancing closer after the opener at p, if any
FirstBalancingCloser(b, p, open, close) ==
    LET qs == BalancingClosers(b, p, open, close)
    IN IF qs = {} THEN None
       ELSE Some(CHOOSE q \in qs : \A r \in qs : r = q \/ Before(q, r))

CloserOf(c) == CASE c = "(" -> ")" [] c = "[" -> "]" [] c = "{" -> "}"

\* C9: on an opening bracket find_matching_bracket returns the first closer
\* of the same type after it, on the same or a later line, that balances it
\* counting only brackets of that type, and none when there is no such closer;
\* on a character that is no bracket it returns none; in "(a(b)c)" position 0
\* gives 6, position 2 gives 4 and position 1 gives none.
C9_ForwardMatchIsFirstBalancingCloser ==
    /\ \A p \in Cells(buffer) :
         LET c == CharAt(buffer, p)
         IN /\ c \in {"(", "[", "{"}
                 => find_matching_bracket(buffer, p[1], p[2])
                      = FirstBalancingCloser(buffer, p, c, CloserOf(c))
            /\ c \notin {"(", ")", "[", "]", "{", "}"}
                 => find_matching_bracket(buffer, p[1], p[2]) = None
    /\ find_matching_bracket(<<BracketExample>>, 0, 0) = Some(<<0, 6>>)
    /\ find_matching_bracket(<<BracketExample>>, 0, 2) = Some(<<0, 4>>)
    /\ find_matching_bracket(<<BracketExample>>, 0, 1) = None
    /\ find_matching_bracket(<<<<"(", "[", ")", "(">>, <<"{", "]">>>>, 0, 1) = Some(<<1, 1>>)
    /\ find_matching_bracket(<<<<"{", "{", "}">>>>, 0, 0) = None
    /\ (CursorOk(Ed) /\ cursor_x < Len(Line(Ed)) /\ At(Line(Ed), cursor_x) = "("
          /\ FirstBalancingCloser(buffer, <<cursor_y, cursor_x>>, "(", ")").some)
         => matched_bracket = FirstBalancingCloser(buffer, <<cursor_y, cursor_x>>, "(", ")")

\* the cursor has moved onto an opening parenthesis whose match was found on
\* a later line, past a bracket of another type
C9_Witness_MatchOnLaterLine ==
    /\ CursorOk(Ed)
    /\ cursor_x >= 1
    /\ cursor_x < Len(Line(Ed))
    /\ At(Line(Ed), cursor_x) = "("
    /\ matched_bracket.some
    /\ matched_bracket.val[1] > cursor_y
    /\ CountBetween(buffer, <<cursor_y, cursor_x>>, matched_bracket.val, "[") >= 1

\* C10: for every opening bracket at p whose match is q,
\* find_matching_bracket on the closing bracket at q returns p.
C10_MatchIsSymmetric ==
    \A p \in Cells(buffer) :
        LET m == find_matching_bracket(buffer, p[1], p[2])
        IN (CharAt(buffer, p) \in {"(", "[", "{"} /\ m.some)
               => find_matching_bracket(buffer, m.val[1], m.val[2]) = Some(p)

(***************************************************************************)
(* The specification that draws one line of source text for the tokenizer.  *)
(***************************************************************************)
TokenChars == {"\"", "'", "\\", "/", "#", "a", "1"}

InitToken == \E t \in Texts(TokenChars, MaxTokenText) : StartsAs(Opened(t))

NextToken ==
    \/ KeyLeft
    \/ KeyRight

SpecToken == InitToken /\ [][NextToken]_vars

Languages == {"Rust", "JavaScript", "Python", "C", "Cpp", "Java", "None"}

\* the rule-priority reading of a line, one character at a time: st is
\* "code", or <<"str", q>> inside a string opened by q, or <<"esc", q>> after
\* a backslash in such a string.  Each position is labelled "open" (a quote
\* that opens a string), "str" (inside a string, the closing quote included),
\* "mark" (the comment marker that starts the comment), "rest" (after it)
\* or "code".
RECURSIVE Labels(_, _, _, _)
Labels(chars, lang, i, st) ==
    IF i >= Len(chars) THEN <<>>
    ELSE LET c == At(chars, i)
         IN IF st = "comment" THEN <<"rest">> \o Labels(chars, lang, i + 1, st)
            ELSE IF st = "code"
            THEN IF c \in {"\"", "'"}
                 THEN <<"open">> \o Labels(chars, lang, i + 1, <<"str", c>>)
                 ELSE IF \/ lang = "Python" /\ c = "#"
                         \/ /\ lang \in {"Rust", "C", "Cpp", "Java", "JavaScript"}
                            /\ c = "/" /\ i + 1 < Len(chars) /\ At(chars, i + 1) = "/"
                 THEN <<"mark">> \o Labels(chars, lang, i + 1, "comment")
                 ELSE <<"code">> \o Labels(chars, lang, i + 1, "code")
            ELSE IF st[1] = "esc"
            THEN <<"str">> \o Labels(chars, lang, i + 1, <<"str", st[2]>>)
            ELSE IF c = st[2] THEN <<"str">> \o Labels(chars, lang, i + 1, "code")
            ELSE IF c = "\\" THEN <<"str">> \o Labels(chars, lang, i + 1, <<"esc", st[2]>>)
            ELSE <<"str">> \o Labels(chars, lang, i + 1, st)

\* the end of the string opened at position p (0-based) of a labelled line
StringEndsAt(ls, p) ==
    IF \A j \in (p + 2)..Len(ls) : ls[j] = "str" THEN Len(ls)
    ELSE (CHOOSE j \in (p + 2)..Len(ls) :
              ls[j] # "str" /\ \A k \in (p + 2)..(j - 1) : ls[k] = "str") - 1

\* C11: for every row and every language, the String tokens are exactly the
\* strings that run from an opening quote to its matching unescaped quote or
\* to the end of the line; the first comment marker outside a string gives a
\* Comment token that runs to the end of the line and is the last token;
\* without such a marker there is no Comment token.
C11_StringsBeforeComments ==
    \A y \in 1..Len(buffer) : \A lang \in Languages :
        LET chars == buffer[y]
            toks == tokenize_line(chars, lang, get_keywords(lang))
            ls == Labels(chars, lang, 0, "code")
            strings == {<<toks[k][1], toks[k][2]>> :
                            k \in {n \in 1..Len(toks) : toks[n][3] = "String"}}
            comments == {n \in 1..Len(toks) : toks[n][3] = "Comment"}
            marks == {p \in 0..(Len(chars) - 1) : ls[p + 1] = "mark"}
        IN /\ strings = {<<p, StringEndsAt(ls, p)>> :
                             p \in {q \in 0..(Len(chars) - 1) : ls[q + 1] = "open"}}
           /\ marks = {} => comments = {}
           /\ marks # {} =>
                /\ comments = {Len(toks)}
                /\ \E p \in marks : toks[Len(toks)] = <<p, Len(chars), "Comment">>

\* a Python row holds a string with a comment marker in it and then a
\* comment, the cursor has moved and the row was drawn as those two tokens
C11_Witness_MarkerInsideString ==
    /\ language = "Python"
    /\ cursor_x >= 1
    /\ buffer = <<<<"\"", "#", "\"", "#">>>>
    /\ DrawnTokens(Line(Ed), language) = <<<<0, 3, "String">>, <<3, 4, "Comment">>>>

(***************************************************************************)
(* The specification that draws an indented document, for the auto-indent.  *)
(***************************************************************************)
IndentChars == {" ", ":", "a", "\n"}

InitIndent == \E t \in Texts(IndentChars, MaxIndentText) : StartsAs(Opened(t))

NextIndent ==
    \/ KeyLeft
    \/ KeyRight
    \/ KeyUp
    \/ KeyDown

SpecIndent == InitIndent /\ [][NextIndent]_vars

\* the indentation the line l asks of the line after it
IndentAfter(l, lang) ==
    LeadingIndent(l) + (IF IncreaseIndent(lang, TrimStart(l)) THEN 4 ELSE 0)

\* C12: when newline splits row r, the new row r + 1 is the rest of the row
\* after as many spaces as row r, as the split leaves it, has leading
\* whitespace columns, plus 4 when its trimmed text opens a block in the
\* language; the cursor ends on row r + 1 at that column.  This holds for
\* every row, row 0 included.
C12_IndentFromSplitLine ==
    (loop = "running" /\ CursorOk(Ed)) =>
        LET r == newline(Ed)
            n == IndentAfter(Take(Line(Ed), cursor_x), language)
        IN /\ r.buffer[cursor_y + 2] = Spaces(n) \o Skip(Line(Ed), cursor_x)
           /\ r.cursor_y = cursor_y + 1
           /\ r.cursor_x = n

\* C13: after every completed operation the buffer is the snapshot the
\* history index designates, buffer = history[history_index].
C13_BufferIsCurrentSnapshot ==
    (loop = "running" /\ history_index < Len(history)) =>
        buffer = At(history, history_index)

\* C14: in every reachable state the history holds at least one snapshot
\* and the history index designates one of them:
\* len(history) >= 1 and 0 <= history_index < len(history).
C14_HistoryIndexValid ==
    /\ Len(history) >= 1
    /\ history_index >= 0
    /\ history_index < Len(history)

\* an undo has reached the oldest snapshot while newer ones remain
C14_Witness_UndoneToOldest ==
    /\ loop = "running"
    /\ history_index = 0
    /\ Len(history) >= 2
    /\ dirty

\* the edits of e, unindent included, that complete and change the buffer
EditedOrUnindented(e) ==
    Edited(e) \cup {r \in {unindent(e)} : r.loop = "running" /\ r.buffer # e.buffer}

\* C15: in every reachable state that undo has left with redo states, every
\* single edit that changes the buffer leaves no snapshot after the history
\* index (history_index = len(history) - 1), and a redo right after the edit
\* changes nothing.
C15_EditDiscardsRedo ==
    (loop = "running" /\ mode = "Normal" /\ history_index + 1 < Len(history))
        => \A r \in EditedOrUnindented(Ed) :
               /\ r.history_index = Len(r.history) - 1
               /\ redo(r) = r

\* an undo took the editor back from the opened file's content and an edit
\* followed: the snapshot of the file's content is gone from the history, the
\* index designates the newest snapshot and the buffer has moved on from it
C15_Witness_EditedAfterUndo ==
    /\ loop = "running"
    /\ file_path.some
    /\ disk[file_path.val].some
    /\ \A i \in 1..Len(history) : history[i] # LoadedBuffer(disk[file_path.val].val)
    /\ history_index = Len(history) - 1
    /\ buffer # history[Len(history)]
    /\ redo(Ed) = Ed

(***************************************************************************)
(* The specification that starts with a history close to history_limit.     *)
(* Shift+Tab on the empty start-up document pushes a snapshot each time and *)
(* leaves the document alone, so these are states the editor reaches.       *)
(***************************************************************************)
RECURSIVE Unindented(_, _)
Unindented(e, k) ==
    IF k = 0 THEN e
    ELSE IF k = 1 THEN unindent(e)
    ELSE LET half == Unindented(e, k \div 2)
         IN IF half.loop = "running" THEN Unindented(half, k - k \div 2) ELSE half

InitHistory ==
    \E t \in FileTexts : \E k \in {history_limit - 2, history_limit - 1} :
        StartsAs(Unindented(NewEditor(t), k))

NextHistory ==
    \/ KeyChar
    \/ KeyBackspace
    \/ KeyEnter
    \/ KeyCtrlZ
    \/ KeyCtrlY
    \/ KeyLeft
    \/ KeyRight

SpecHistory == InitHistory /\ [][NextHistory]_vars

\* C16: in every reachable state the history holds at most history_limit
\* snapshots; when the history is full and the index designates its newest
\* snapshot, a push drops exactly the oldest snapshot: the others move down
\* one place in their order, the pushed snapshot is the newest, and the index,
\* advanced by the push and decremented by one for the drop, designates it.
C16_HistoryCapacity ==
    /\ Len(history) <= history_limit
    /\ (loop = "running" /\ Len(history) = history_limit
            /\ history_index = history_limit - 1)
         => LET r == save_history_state(Ed)
            IN /\ Len(r.history) = history_limit
               /\ \A i \in 1..(history_limit - 1) : r.history[i] = history[i + 1]
               /\ r.history[history_limit] = buffer
               /\ r.history_index = (history_index + 1) - 1
               /\ r.history_index = Len(r.history) - 1

\* the history is full and pushes have moved a snapshot of a document that
\* was not empty two places down from the newest place
C16_Witness_OldestDropped ==
    /\ loop = "running"
    /\ Len(history) = history_limit
    /\ history_index = history_limit - 1
    /\ history[history_limit - 2] # <<<<>>>>
    /\ history[1] = <<<<>>>>

\* what undo and redo may touch
HistoryView(e) ==
    <<e.buffer, e.cursor_x, e.cursor_y, e.history, e.history_index, e.dirty, e.loop>>

\* C17: undo with history_index = 0 and redo with history_index + 1 =
\* len(history) leave the buffer, the cursor, the history, the history index
\* and the dirty flag as they were, and raise no error.
C17_BoundaryUndoRedoNoOp ==
    /\ (loop = "running" /\ history_index = 0)
         => /\ HistoryView(undo(Ed)) = HistoryView(Ed)
            /\ undo(Ed) = Ed
    /\ (loop = "running" /\ history_index + 1 = Len(history))
         => /\ HistoryView(redo(Ed)) = HistoryView(Ed)
            /\ redo(Ed) = Ed

\* undo has gone back to the oldest snapshot, where one more undo does nothing
\* while redo still has a snapshot to load
C17_Witness_AtOldestSnapshot ==
    /\ loop = "running"
    /\ history_index = 0
    /\ Len(history) >= 2
    /\ buffer = history[1]
    /\ undo(Ed) = Ed
    /\ redo(Ed) # Ed

\* open_file finds the file in the cache or on the disk
OpenSucceeds(e, path) ==
    \/ e.disk[path].some
    \/ e.file_buffers[path].some
    \/ e.file_path.some /\ e.file_path.val = path

\* C18: the oldest undo state of a document is its state at file-open: in
\* every reachable state, an undo right after open_file has succeeded leaves
\* the buffer equal to the content the file was opened with, and no number of
\* further undos brings back a buffer from before the open.
C18_UndoKeepsOpenedContent ==
    (loop = "running" /\ mode = "Normal")
        => \A p \in Paths :
               OpenSucceeds(Ed, p)
                   => LET o == open_file(Ed, p)
                      IN /\ undo(o).buffer = o.buffer
                         /\ undo(undo(o)).buffer = o.buffer

(***************************************************************************)
(* The specification of editing while a selection exists.                   *)
(***************************************************************************)
NextSelectEdit ==
    \/ KeyCtrlA
    \/ KeyShiftLeft
    \/ KeyShiftRight
    \/ KeyCtrlC
    \/ KeyCtrlV
    \/ KeyChar
    \/ KeyBackspace
    \/ KeyEnter
    \/ KeyShiftTab
    \/ KeyCtrlZ
    \/ KeyCtrlY
    \/ KeyLeft
    \/ KeyRight

SpecSelectEdit == Init /\ [][NextSelectEdit]_vars

\* C19: in every reachable state where both selection endpoints are set, each
\* endpoint (row, col) is a position of the buffer: row < len(buffer) and
\* col <= len(buffer[row]).
C19_SelectionEndpointsValid ==
    (loop = "running" /\ selection_start.some /\ selection_end.some)
        => /\ selection_start.val \in Positions(buffer)
           /\ selection_end.val \in Positions(buffer)

\* the editor after each edit key and each plain arrow key that moves the
\* cursor, as the Normal-mode dispatch handles them with the tree hidden
EditAndMoveKeys(e) ==
    {insert(DropSelection(e), c) : c \in TypedChars}
    \cup {indent(e), unindent(e)}
    \cup {paste(e, clip) : clip \in SysClips \ {None}}
    \cup {backspace(DropSelection(e)), delete(DropSelection(e)),
          newline(DropSelection(e))}
    \cup {r \in {left(DropSelection(e)), right(DropSelection(e)),
                 up(DropSelection(e)), down(DropSelection(e))} :
              <<r.cursor_y, r.cursor_x>> # <<e.cursor_y, e.cursor_x>>}

\* C20: in every reachable state with a selection, whether shift-arrows or
\* select-all made it and whether or not a copy came after, every edit key
\* (character, Tab, Shift+Tab, paste, backspace, delete, newline) and every
\* plain arrow key that moves the cursor leaves selection_start and
\* selection_end unset; ending the selection removes no text.
C20_EditOrMoveClearsSelection ==
    (loop = "running" /\ mode = "Normal" /\ ~show_tree
         /\ selection_start.some /\ selection_end.some)
        => /\ DropSelection(Ed).buffer = buffer
           /\ \A r \in EditAndMoveKeys(Ed) :
                  r.loop = "running"
                      => ~r.selection_start.some /\ ~r.selection_end.some

\* the editor after each shift-navigation key, as the Normal-mode dispatch
\* handles them
ShiftSteps(e) ==
    {left(BeginSelection(e)), right(BeginSelection(e)),
     up(BeginSelection(e)), down(BeginSelection(e)),
     update_selection_end(word_left(BeginSelection(e))),
     update_selection_end(word_right(BeginSelection(e)))}

\* C21: in every reachable state, after each shift-navigation step
\* (Shift+Left, Shift+Right, Shift+Up, Shift+Down, Ctrl+Shift+Left,
\* Ctrl+Shift+Right) the selection is active and selection_end is the cursor
\* position (cursor_y, cursor_x).
C21_SelectionEndTracksCursor ==
    (loop = "running" /\ mode = "Normal")
        => \A r \in ShiftSteps(Ed) :
               r.loop = "running"
                   => /\ r.is_selecting
                      /\ r.selection_end = Some(<<r.cursor_y, r.cursor_x>>)

(***************************************************************************)
(* The specification of selecting with the mouse and with shifted keys.     *)
(***************************************************************************)
\* a mouse event, which the loop handles in every mode
Mouse(name, e) == Apply(Frame(e))

\* the text cells the mouse points at; an event outside the text area returns
\* at once
MouseCells == (0..MaxMouse) \X (0..MaxMouse)

MouseDown ==
    /\ loop = "running"
    /\ \E cell \in MouseCells : \E shift \in BOOLEAN : \E quick \in BOOLEAN :
           Mouse("click", handle_mouse_click(Ed, cell[1], cell[2], shift, quick))

MouseDrag ==
    /\ loop = "running"
    /\ \E cell \in MouseCells :
           Mouse("drag", handle_mouse_drag(Ed, cell[1], cell[2]))

MouseUp ==
    /\ loop = "running"
    /\ Mouse("release", handle_mouse_release(Ed))

InitMouse == \E t \in Texts(SelectChars, MaxMouseText) : StartsAs(Opened(t))

NextMouse ==
    \/ MouseDown
    \/ MouseDrag
    \/ MouseUp
    \/ KeyShiftLeft
    \/ KeyShiftRight
    \/ KeyShiftUp
    \/ KeyShiftDown
    \/ KeyLeft

SpecMouse == InitMouse /\ [][NextMouse]_vars

\* the editor after each mouse-drag step
DragSteps(e) == {handle_mouse_drag(e, cell[1], cell[2]) : cell \in MouseCells}

\* C22: in every reachable state with an active selection, no shift-navigation
\* step and no mouse-drag step changes selection_start, whichever side of the
\* anchor the active end goes to.
C22_AnchorStaysFixed ==
    (loop = "running" /\ mode = "Normal" /\ is_selecting /\ selection_start.some)
        => \A r \in ShiftSteps(Ed) \cup DragSteps(Ed) :
               r.selection_start = selection_start

\* a drag has taken the active end in front of the anchor
C22_Witness_EndCrossedAnchor ==
    /\ loop = "running"
    /\ mouse_dragging
    /\ is_selecting
    /\ selection_start.some
    /\ selection_end.some
    /\ PosLess(selection_end.val, selection_start.val)
    /\ selection_start = mouse_drag_start_pos

\* the buffer b without the text from position p up to position q, p not
\* after q: the rows p..q become one row, the text before p joined with the
\* text after q
WithoutRange(b, p, q) ==
    SubSeq(b, 1, p[1])
    \o <<Take(b[p[1] + 1], p[2]) \o Skip(b[q[1] + 1], q[2])>>
    \o SubSeq(b, q[1] + 2, Len(b))

\* C23: in every reachable state with a non-empty selection, Backspace and
\* Delete each leave the buffer without exactly the text between the
\* normalized endpoints; a selection over several rows leaves one row in
\* their place.
C23_DeleteRemovesSelection ==
    (loop = "running" /\ mode = "Normal" /\ ~show_tree /\ is_selecting
         /\ selection_start.some /\ selection_end.some
         /\ selection_start # selection_end)
        => LET a == selection_start.val
               c == selection_end.val
               p == IF PosLess(c, a) THEN c ELSE a
               q == IF PosLess(c, a) THEN a ELSE c
           IN /\ backspace(DropSelection(Ed)).buffer = WithoutRange(buffer, p, q)
              /\ delete(DropSelection(Ed)).buffer = WithoutRange(buffer, p, q)

\* the class of a character for the word operations
CharClass(c) ==
    IF IsBlank(c) THEN "blank"
    ELSE IF is_special_char(c) THEN "punctuation"
    ELSE IF IsWordChar(c) THEN "word"
    ELSE "other"

\* the columns [s, e) of the maximal run of characters of the class of column
\* x of line that contains x; a punctuation character is a run of its own
ClassRun(line, x) ==
    IF CharClass(At(line, x)) = "punctuation" THEN <<x, x + 1>>
    ELSE LET same(i) == CharClass(At(line, i)) = CharClass(At(line, x))
             s == CHOOSE i \in 0..x :
                      /\ \A j \in i..x : same(j)
                      /\ (i = 0 \/ ~same(i - 1))
             e == CHOOSE i \in (x + 1)..Len(line) :
                      /\ \A j \in x..(i - 1) : same(j)
                      /\ (i = Len(line) \/ ~same(i))
         IN <<s, e>>

\* C24: in every reachable state, select_word_at on a column that holds a
\* word character selects exactly the maximal run of word characters around
\* it, on a punctuation character exactly that character, and on a blank the
\* run of blanks around it; the selection never holds two classes.
C24_WordSelectionIsOneClassRun ==
    loop = "running"
        => \A y \in 0..(Len(buffer) - 1) : \A x \in 0..(Len(buffer[y + 1]) - 1) :
               CharClass(At(buffer[y + 1], x)) \in {"word", "punctuation", "blank"}
                   => LET r == select_word_at(Ed, y, x)
                          run == ClassRun(buffer[y + 1], x)
                      IN /\ r.selection_start = Some(<<y, run[1]>>)
                         /\ r.selection_end = Some(<<y, run[2]>>)

\* the first column at or after x of line that holds no blank
RECURSIVE BlanksEndFrom(_, _)
BlanksEndFrom(line, x) ==
    IF x < Len(line) /\ IsBlank(At(line, x)) THEN BlanksEndFrom(line, x + 1) ELSE x

\* the end of the one run that starts at column x: a maximal run of word
\* characters, or one punctuation character
OneRunEnd(line, x) ==
    IF x >= Len(line) THEN x
    ELSE IF CharClass(At(line, x)) \in {"word", "punctuation"}
    THEN ClassRun(line, x)[2]
    ELSE x

\* the start of the one run that ends before column x
OneRunStart(line, x) ==
    IF x = 0 THEN x
    ELSE IF CharClass(At(line, x - 1)) \in {"word", "punctuation"}
    THEN ClassRun(line, x - 1)[1]
    ELSE x

\* C25: in every reachable state with the cursor inside a line,
\* delete_word_forward removes the blanks at the cursor and then exactly one
\* run (a maximal run of word characters or one punctuation character), and
\* delete_word_backward removes the blanks before the cursor and exactly one
\* run before them; all other characters stay and the cursor ends at the
\* start of the removed range.
C25_WordDeletionIsBlanksThenOneRun ==
    (loop = "running" /\ CursorOk(Ed))
        => /\ cursor_x < Len(Line(Ed))
                => LET end == OneRunEnd(Line(Ed), BlanksEndFrom(Line(Ed), cursor_x))
                       r == delete_word_forward(Ed)
                   IN /\ r.buffer = SetLine(Ed, VecDrain(Line(Ed), cursor_x, end))
                      /\ r.cursor_x = cursor_x
           /\ cursor_x > 0
                => LET start == OneRunStart(Line(Ed), BlanksBefore(Line(Ed), cursor_x))
                       r == delete_word_backward(Ed)
                   IN /\ r.buffer = SetLine(Ed, VecDrain(Line(Ed), start, cursor_x))
                      /\ r.cursor_x = start

\* all characters of the document in order, line breaks left out
RECURSIVE AllChars(_)
AllChars(b) == IF Len(b) = 0 THEN <<>> ELSE b[1] \o AllChars(Tail(b))

\* C26: in every reachable state with a valid cursor, backspace at column 0
\* of a row r > 0 and delete at the end of a row before the last one each
\* take one line away and leave the characters of the document and their
\* order as they were; backspace leaves the cursor on row r - 1 at the former
\* length of that row, delete leaves the cursor where it was; backspace at
\* (0, 0) and delete at the end of the last line change nothing.
C26_MergePreservesContent ==
    (loop = "running" /\ CursorOk(Ed))
        => /\ (cursor_x = 0 /\ cursor_y > 0)
                => LET r == backspace(Ed)
                   IN /\ Len(r.buffer) = Len(buffer) - 1
                      /\ AllChars(r.buffer) = AllChars(buffer)
                      /\ r.buffer[cursor_y] = buffer[cursor_y] \o Line(Ed)
                      /\ r.cursor_y = cursor_y - 1
                      /\ r.cursor_x = Len(buffer[cursor_y])
           /\ (cursor_x = Len(Line(Ed)) /\ cursor_y + 1 < Len(buffer))
                => LET r == delete(Ed)
                   IN /\ Len(r.buffer) = Len(buffer) - 1
                      /\ AllChars(r.buffer) = AllChars(buffer)
                      /\ r.buffer[cursor_y + 1] = Line(Ed) \o buffer[cursor_y + 2]
                      /\ r.cursor_y = cursor_y
                      /\ r.cursor_x = cursor_x
           /\ (cursor_x = 0 /\ cursor_y = 0) => backspace(Ed) = Ed
           /\ (cursor_x = Len(Line(Ed)) /\ cursor_y + 1 = Len(buffer))
                => delete(Ed) = Ed

\* the cursor has come down to the start of a row that has text, below a row
\* that has text, and backspace merges the two
C26_Witness_AtStartOfLowerRow ==
    /\ loop = "running"
    /\ CursorOk(Ed)
    /\ cursor_x = 0
    /\ cursor_y > 0
    /\ Len(Line(Ed)) > 0
    /\ Len(buffer[cursor_y]) > 0
    /\ Len(backspace(Ed).buffer) = Len(buffer) - 1


(***************************************************************************)
(* The tokens of a line as a partition.                                     *)
(***************************************************************************)
\* the columns of the line that lie in some token
Covered(toks) ==
    UNION {toks[k][1]..(toks[k][2] - 1) : k \in 1..Len(toks)}

\* tokens ordered by start, non-empty, pairwise disjoint, inside the line
Disjoint(toks, chars) ==
    /\ \A k \in 1..Len(toks) :
           /\ 0 <= toks[k][1]
           /\ toks[k][1] < toks[k][2]
           /\ toks[k][2] <= Len(chars)
    /\ \A k \in 1..(Len(toks) - 1) : toks[k][2] <= toks[k + 1][1]

HasComment(toks) == \E k \in 1..Len(toks) : toks[k][3] = "Comment"

\* C27 as stated: on a line without a comment the tokens are ordered,
\* non-empty, disjoint, inside the line, and cover every column, a character
\* outside strings, numbers and identifiers being a Normal token of length 1
C27_TokensCoverLine ==
    \A y \in 1..Len(buffer) : \A lang \in Languages \ {"None"} :
        LET chars == buffer[y]
            toks == tokenize_line(chars, lang, get_keywords(lang))
        IN ~HasComment(toks)
              => /\ Disjoint(toks, chars)
                 /\ Covered(toks) = 0..(Len(chars) - 1)

\* C27: on a line without a comment the tokens are ordered by start column,
\* non-empty, pairwise disjoint and inside the line; an identifier token
\* holds only letters, digits and '_', a Number token starts with a digit, a
\* String token with a quote; and a character in no token is none of a
\* quote, a digit, a letter or '_': it gets no token of its own
C27_TokensAreDisjointRuns ==
    \A y \in 1..Len(buffer) : \A lang \in Languages \ {"None"} :
        LET chars == buffer[y]
            toks == tokenize_line(chars, lang, get_keywords(lang))
        IN ~HasComment(toks)
              => /\ Disjoint(toks, chars)
                 /\ \A k \in 1..Len(toks) :
                        LET first == At(chars, toks[k][1])
                        IN CASE toks[k][3] = "String" -> first \in {"\"", "'"}
                             [] toks[k][3] = "Number" -> is_ascii_digit(first)
                             [] OTHER ->
                                  \A i \in toks[k][1]..(toks[k][2] - 1) :
                                      is_alphanumeric(At(chars, i)) \/ At(chars, i) = "_"
                 /\ \A i \in (0..(Len(chars) - 1)) \ Covered(toks) :
                        /\ At(chars, i) \notin {"\"", "'", "_"}
                        /\ ~is_alphanumeric(At(chars, i))

\* a drawn line with a character between two tokens that lies in neither
C27_Witness_CharacterInNoToken ==
    /\ buffer = <<<<"a", "/", "1">>>>
    /\ cursor_x >= 1
    /\ tokenize_line(Line(Ed), language, get_keywords(language))
           = <<<<0, 1, "Normal">>, <<2, 3, "Number">>>>


(***************************************************************************)
(* The specification of a session over two files: the editor is started on  *)
(* one file of a directory that holds a second one, and the files are       *)
(* edited, opened from the tree, saved, and the editor is quit.             *)
(***************************************************************************)
OtherFile == <<"n", "py">>

\* new_with_path on TheFile holding text, in a directory where OtherFile
\* holds other
OpenedBeside(text, other) ==
    LET e == new_with_path(text, TheFile)
    IN [e EXCEPT !.disk = [p \in Paths \cup {OtherFile} |->
                               IF p \in Paths THEN e.disk[p] ELSE Some(other)],
                 !.file_buffers = [p \in Paths \cup {OtherFile} |->
                               IF p \in Paths THEN e.file_buffers[p] ELSE None]]

InitFiles ==
    \E t \in {<<>>, <<"a">>} : \E u \in {<<>>, <<"a">>} : StartsAs(OpenedBeside(t, u))

NextFiles ==
    \/ KeyChar
    \/ KeyEnter
    \/ KeyDelete
    \/ KeyY
    \/ KeyN
    \/ KeyCtrlO
    \/ KeyCtrlS
    \/ KeyCtrlQ

SpecFiles == InitFiles /\ [][NextFiles]_vars

\* the lines the editor holds for path p: the buffer when p is the open
\* file, else the lines kept for p when it was left
InMemory(e, p) ==
    IF e.file_path = Some(p) THEN Some(e.buffer) ELSE e.file_buffers[p]

\* the lines held for p are neither what a load of the file gives nor what a
\* save wrote to it
Unsaved(e, p) ==
    /\ InMemory(e, p).some
    /\ e.disk[p].some
    /\ InMemory(e, p).val # LoadedBuffer(e.disk[p].val)
    /\ JoinNl(InMemory(e, p).val) # e.disk[p].val

\* C28: while some file has lines in memory that were not written, a Ctrl+Q
\* with no confirmation pending leaves the loop running and asks for the
\* confirmation; with the confirmation pending it ends the loop; and any
\* other key in Normal mode withdraws the pending confirmation
C28_QuitAsksWhenUnsaved ==
    (loop = "running" /\ mode = "Normal")
        => /\ (~quit_confirm /\ \E p \in DOMAIN disk : Unsaved(Ed, p))
                  => /\ CtrlQ(Ed).loop = "running"
                     /\ CtrlQ(Ed).quit_confirm
           /\ quit_confirm => CtrlQ(Ed).loop = "quit"
           /\ ~CancelQuit(Ed).quit_confirm


\* C29: a path leaves dirty_files only in a step that saves that file (the
\* open file's lines are written to it) or that loads its content from disk
\* (no lines were held for it in memory); re-opening a file whose edited
\* lines are held in memory keeps its path in dirty_files
C29_DirtyUntilSavedOrLoaded ==
    [][\A p \in DOMAIN disk :
           (p \in dirty_files /\ p \notin dirty_files')
               => \/ /\ file_path = Some(p)
                     /\ disk'[p] = Some(JoinNl(buffer))
                     /\ buffer' = buffer
                  \/ /\ ~InMemory(Ed, p).some
                     /\ file_path' = Some(p)
                     /\ disk[p].some
                     /\ buffer' = LoadedBuffer(disk[p].val)]_vars


\* the fields of the open document
Document(e) ==
    <<e.buffer, e.cursor_x, e.cursor_y, e.file_path, e.language, e.history,
      e.history_index, e.dirty, e.dirty_files>>

\* open_file finds no lines kept for p and cannot read it
ReadFails(e, p) == ~InMemory(e, p).some /\ ~e.disk[p].some

GotoChars == {"a", "\n"}

InitGoto == \E t \in Texts(GotoChars, MaxGotoText) : StartsAs(Opened(t))

NextGoto ==
    \/ KeyCtrlG
    \/ GotoDigit
    \/ GotoBackspace
    \/ GotoEnter
    \/ GotoEsc
    \/ KeyRight
    \/ KeyDown

SpecGoto == InitGoto /\ [][NextGoto]_vars

\* C31: confirming the entry N with 1 <= N <= len(buffer) puts the cursor on
\* row N - 1 and clamps its column to that line; confirming an empty entry or
\* a number outside that range leaves the cursor where it is; and neither the
\* confirmation, nor starting, nor cancelling changes the buffer or history
C31_GotoLineValidatesEntry ==
    (loop = "running" /\ mode = "GoToLine")
        => LET r == confirm_goto_line(Ed)
               n == DigitsValue(goto_line_input)
           IN /\ (Len(goto_line_input) > 0 /\ 1 <= n /\ n <= Len(buffer))
                     => /\ r.cursor_y = n - 1
                        /\ r.cursor_x = Min(cursor_x, Len(buffer[n]))
                        /\ r.mode = "Normal"
              /\ (Len(goto_line_input) = 0 \/ n < 1 \/ n > Len(buffer))
                     => /\ r.cursor_y = cursor_y
                        /\ r.cursor_x = cursor_x
              /\ \A q \in {r, cancel_goto_line(Ed), start_goto_line(Ed)} :
                     /\ q.buffer = buffer
                     /\ q.history = history
                     /\ q.history_index = history_index
                     /\ q.loop = "running"

\* the entry names a lower row that is shorter than the cursor's column
C31_Witness_ColumnClamped ==
    /\ loop = "running" /\ mode = "GoToLine"
    /\ goto_line_input = <<"2">>
    /\ Len(buffer) >= 2
    /\ cursor_y = 0
    /\ cursor_x > Len(buffer[2])
    /\ confirm_goto_line(Ed).cursor_y = 1
    /\ confirm_goto_line(Ed).cursor_x = Len(buffer[2])


\* C32: after every cursor move and every edit matched_bracket is what
\* update_bracket_matching computes for the current buffer and cursor
C32_BracketMatchNeverStale ==
    loop = "running"
        => matched_bracket = update_bracket_matching(Ed).matched_bracket

\* C33: when update_bracket_matching runs with the cursor right of a bracket
\* that has a match, and the cursor is at the end of the line or on a
\* character that is no bracket, matched_bracket becomes that match
C33_CursorAfterBracketHighlights ==
    (loop = "running" /\ CursorOk(Ed) /\ cursor_x > 0)
        => LET before == find_matching_bracket(buffer, cursor_y, cursor_x - 1)
               under == IF cursor_x < Len(Line(Ed)) THEN At(Line(Ed), cursor_x) ELSE ""
           IN (before.some /\ under \notin {"(", ")", "[", "]", "{", "}"})
                  => update_bracket_matching(Ed).matched_bracket = before


(***************************************************************************)
(* The specification of scrolling: a document is drawn in a terminal of a   *)
(* few text rows and columns, the cursor is moved with the arrow keys and   *)
(* Ctrl+A, and the mouse wheel is turned.                                   *)
(***************************************************************************)
ScrollChars == {"a", "\n"}

\* the editor started on TheFile in a terminal of h text rows and w text
\* columns, the tree hidden
OpenedIn(text, h, w) ==
    [Opened(text) EXCEPT !.term_rows = STATUS_HEIGHT + h,
                         !.term_cols = LINE_NUM_WIDTH + w]

InitScroll ==
    \E t \in Texts(ScrollChars, MaxScrollText) :
        \E h \in 1..MaxWindow : \E w \in 1..MaxWindow : StartsAs(OpenedIn(t, h, w))

MouseScrollUp ==
    /\ loop = "running"
    /\ Mouse("handle_mouse_scroll", handle_mouse_scroll(Ed, term_rows, TRUE))

MouseScrollDown ==
    /\ loop = "running"
    /\ Mouse("handle_mouse_scroll", handle_mouse_scroll(Ed, term_rows, FALSE))

NextScroll ==
    \/ KeyLeft
    \/ KeyRight
    \/ KeyUp
    \/ KeyDown
    \/ KeyCtrlA
    \/ MouseScrollUp
    \/ MouseScrollDown

SpecScroll == InitScroll /\ [][NextScroll]_vars

\* the text rows and columns of the terminal
WindowHeight(e) == e.term_rows - STATUS_HEIGHT
WindowWidth(e) == e.term_cols - TextOffset(e)

\* one coordinate: the scroll position after the clamp, for cursor c, scroll
\* position s before and window size n
ClampedAs(after, c, s, n) ==
    /\ after <= c
    /\ c < after + n
    /\ (s <= c /\ c < s + n) => after = s
    /\ c < s => after = c
    /\ c >= s + n => after = s + (c - (s + n - 1))

\* C34: for every positive window height and width ensure_cursor_visible
\* leaves the cursor inside the window, keeps the scroll position when the
\* cursor was inside, sets it to the cursor's coordinate when the cursor was
\* above or left, raises it by the overflow when the cursor was below or
\* right, rows and columns each for itself, and changes nothing else; the
\* loop applies it when cursor_locked is false and not when it is true
C34_ViewportClamp ==
    loop = "running"
        => /\ \A h \in 1..(MaxWindow + 1) : \A w \in 1..(MaxWindow + 1) :
                  LET r == ensure_cursor_visible(Ed, STATUS_HEIGHT + h, TextOffset(Ed) + w)
                  IN /\ ClampedAs(r.scroll_y, cursor_y, scroll_y, h)
                     /\ ClampedAs(r.scroll_x, cursor_x, scroll_x, w)
                     /\ [r EXCEPT !.scroll_y = scroll_y, !.scroll_x = scroll_x] = Ed
           /\ cursor_locked
                  => /\ Frame(Ed).scroll_y = scroll_y
                     /\ Frame(Ed).scroll_x = scroll_x
           /\ ~cursor_locked
                  => /\ scroll_y <= cursor_y /\ cursor_y < scroll_y + WindowHeight(Ed)
                     /\ scroll_x <= cursor_x /\ cursor_x < scroll_x + WindowWidth(Ed)

\* the wheel has scrolled the locked cursor out of the window: it is below
\* the last text row, and the columns are scrolled too
C34_Witness_CursorBelowWindow ==
    /\ loop = "running"
    /\ cursor_locked
    /\ cursor_y >= scroll_y + WindowHeight(Ed)
    /\ scroll_x > 0
    /\ ensure_cursor_visible(Ed, term_rows, term_cols).scroll_y > scroll_y


\* C35: typing one character in Normal mode, which changes one line and
\* neither the scroll position, the mode nor the tree, leaves the full-redraw
\* flag unset, so that the draw that follows does not clear the whole screen
C35_InsertRedrawsLineLocally ==
    (loop = "running" /\ mode = "Normal" /\ CursorOk(Ed) /\ ~needs_full_redraw)
        => \A c \in TypedChars :
               LET typed == insert(Ed, c)
                   shown == ensure_cursor_visible(typed, term_rows, term_cols)
               IN (/\ shown.scroll_y = scroll_y /\ shown.scroll_x = scroll_x
                   /\ shown.mode = mode /\ shown.show_tree = show_tree
                   /\ Len(shown.buffer) = Len(buffer))
                      => ~ClearsScreen(shown)


\* C36: cursor_locked becomes set only in a step that leaves the cursor, the
\* buffer, the history and the selection alone and moves scroll_y by at most
\* SCROLL_STEP rows within [0, max(0, len(buffer) - H)]; and a step taken
\* with the lock set that moves the cursor or changes the buffer resets the
\* lock, so that the cursor is inside the window at the next frame
C36_LockReleasedByMovesAndEdits ==
    [][/\ (~cursor_locked /\ cursor_locked')
            => /\ buffer' = buffer
               /\ cursor_x' = cursor_x /\ cursor_y' = cursor_y
               /\ history' = history /\ history_index' = history_index
               /\ selection_start' = selection_start
               /\ selection_end' = selection_end
               /\ is_selecting' = is_selecting
               /\ scroll_y' - scroll_y <= SCROLL_STEP
               /\ scroll_y - scroll_y' <= SCROLL_STEP
               /\ scroll_y' <= SatSub(Len(buffer), WindowHeight(Ed))
       /\ (cursor_locked /\ loop' = "running"
             /\ (cursor_x' # cursor_x \/ cursor_y' # cursor_y \/ buffer' # buffer))
            => /\ ~cursor_locked'
               /\ scroll_y' <= cursor_y'
               /\ cursor_y' < scroll_y' + WindowHeight(Ed)]_vars


\* C37: where a single Ctrl+Q ends the loop without asking, it still does
\* after a step that only moves the cursor: one that leaves the buffer, the
\* history, the files, the mode and the tree as they were
C37_QuitAfterMovesNeedsNoConfirmation ==
    [][(/\ loop = "running" /\ loop' = "running"
        /\ mode = "Normal" /\ mode' = "Normal"
        /\ CtrlQ(Ed).loop = "quit"
        /\ (cursor_x' # cursor_x \/ cursor_y' # cursor_y)
        /\ buffer' = buffer
        /\ history' = history /\ history_index' = history_index
        /\ file_path' = file_path /\ file_buffers' = file_buffers
        /\ dirty_files' = dirty_files /\ disk' = disk
        /\ show_tree' = show_tree)
          => /\ (CtrlQ(Ed).loop)' = "quit"
             /\ ~(CtrlQ(Ed).quit_confirm)']_vars


\* C38: for the open buffer, non-empty and possibly ending in an empty line,
\* the text save writes, read back as open_file reads a file it holds no
\* lines for, is the buffer again, line for line
C38_SaveLoadRoundTrip ==
    (loop = "running" /\ Len(buffer) >= 1)
        => LoadedBuffer(JoinNl(buffer)) = buffer


\* the history as undo and redo see it
SameHistory(r, e) == r.history = e.history /\ r.history_index = e.history_index

\* C39: backspace at (0,0), delete at the end of the last line, unindent on
\* an empty line or on a line that starts with no blank, and a word deletion
\* that leaves the buffer as it was, push no snapshot and leave history and
\* history_index unchanged, so that undo after them gives what undo gives now
C39_NoOpEditsKeepHistory ==
    (loop = "running" /\ CursorOk(Ed))
        => /\ (cursor_x = 0 /\ cursor_y = 0) => SameHistory(backspace(Ed), Ed)
           /\ (cursor_x = Len(Line(Ed)) /\ cursor_y + 1 = Len(buffer))
                  => SameHistory(delete(Ed), Ed)
           /\ (Len(Line(Ed)) = 0 \/ ~IsBlank(Line(Ed)[1]))
                  => /\ SameHistory(unindent(Ed), Ed)
                     /\ undo(unindent(Ed)).buffer = undo(Ed).buffer
           /\ delete_word_backward(Ed).buffer = buffer
                  => SameHistory(delete_word_backward(Ed), Ed)
           /\ delete_word_forward(Ed).buffer = buffer
                  => SameHistory(delete_word_forward(Ed), Ed)

\* (y1, x1) comes before (y2, x2) in the buffer
Earlier(y1, x1, y2, x2) == y1 < y2 \/ (y1 = y2 /\ x1 < x2)

\* C40: word_right moves the cursor to a strictly later position from every
\* position but the end of the last line, and word_left to a strictly earlier
\* one from every position but (0,0), whatever character is under or beside
\* the cursor
C40_WordMovesMakeProgress ==
    (loop = "running" /\ CursorOk(Ed))
        => /\ ~(cursor_y + 1 = Len(buffer) /\ cursor_x = Len(Line(Ed)))
                  => Earlier(cursor_y, cursor_x,
                             word_right(Ed).cursor_y, word_right(Ed).cursor_x)
           /\ ~(cursor_y = 0 /\ cursor_x = 0)
                  => Earlier(word_left(Ed).cursor_y, word_left(Ed).cursor_x,
                             cursor_y, cursor_x)

====
